---- MODULE Spec2Model ----
(***************************************************************************)
(* A model of gamebox.py: the image transform cache (_ImageCache), the     *)
(* SpriteBox built on it, the SpriteBox collision geometry, and the event  *)
(* loop timer_loop.                                                        *)
(*                                                                         *)
(* A Surface is an index into the heap `surfaces`; two Surface objects are *)
(* identical exactly when their indices are equal.  A dictionary is a      *)
(* function whose domain is the set of its keys.  An _ImageKey is the      *)
(* tuple <<key, flip, w, h, angle>>.                                       *)
(***************************************************************************)
EXTENDS Integers, Sequences, FiniteSets, TLC

VARIABLES known_images, surfaces, boxes, calls, last,
          queue, timer, pc, frames, limit, keys, result, obs,
          known_text, camera, attrs, stderr, game, mouse

\* the state of timer_loop: pygame's event queue and timer, the position of
\* the loop, its locals, Camera.instance.keys, its return value, and what an
\* observer of the callback has recorded
loopvars == <<queue, timer, pc, frames, limit, keys, result, obs>>

\* Camera.instance, the fields a game added to its SpriteBox and to its
\* Camera, the lines written to sys.stderr, the global variables of a sample
\* game, and pygame's mouse
uivars == <<camera, attrs, stderr, game, mouse>>

vars == <<known_images, surfaces, boxes, calls, last, loopvars, known_text, uivars>>

(***************************************************************************)
(* Bounds of the model.                                                    *)
(***************************************************************************)
\* the heap holds at most this many Surface objects
MaxSurfaces == 3
\* the same, where the game uses the cache directly
MaxCacheSurfaces == 3
\* scale_by and the size setters are tried only up to this width or height
MaxDim == 8

(***************************************************************************)
(* The environment: the file system, the decoder and pygame.transform.     *)
(***************************************************************************)
\* files that exist in the working directory
LocalFiles == {"a.png", "bad.png"}
\* the files among them that pygame.image.load cannot decode
Undecodable == {"bad.png"}
\* references given to the library: a local file, a URL whose basename is
\* that file, and a name that is neither a file nor a reachable URL
Refs == {"a.png", "http://h/a.png", "gone.png"}
\* references whose source cannot be resolved
BadRefs == {"gone.png", "bad.png"}

\* os.path.basename(urllib.parse.urlparse(url).path)
Basename(url) ==
    CASE url = "http://h/a.png" -> "a.png"
      [] OTHER -> url

\* the decoded size of a file, as (width, height)
FileSize(filename) == <<4, 2>>

\* '__id__' + str(id(surface)): one name per Surface object
Sid(surface) == "__id__" \o ToString(surface)

EmptyDict == [k \in {} |-> 0]

Put(dict, k, v) == [x \in (DOMAIN dict) \cup {k} |-> IF x = k THEN v ELSE dict[x]]

ImageKey(key, flip, w, h, angle) == <<key, flip, w, h, angle>>

\* n / d rounded up, for n >= 0 and d > 0
CeilDiv(n, d) == (n + d - 1) \div d

Max(a, b) == IF a >= b THEN a ELSE b

Abs(a) == IF a < 0 THEN -a ELSE a

\* |sin(angle)| and |cos(angle)| in thousandths, for the multiples of 30 degrees
AbsSin1000(angle) ==
    LET m == angle % 180 IN
    CASE m = 0 -> 0
      [] m \in {30, 150} -> 500
      [] m \in {60, 120} -> 866
      [] OTHER -> 1000

AbsCos1000(angle) ==
    LET m == angle % 180 IN
    CASE m = 0 -> 1000
      [] m \in {30, 150} -> 866
      [] m \in {60, 120} -> 500
      [] OTHER -> 0

\* rotozoom.c computes in doubles.  Where a sine or cosine is 1/2 in the
\* reals, the double the C library returns is a little more or a little less
\* than 1/2: these are the angles in -360..360 where it is more.
HalfRoundsUp == {-330, -300, -240, -210, -60, 60, 210, 240, 300, 330}

\* ceil of n thousandths as rotozoom.c computes it, at least 1: a product
\* that is a whole number in the reals is a little above it in doubles when
\* the half is
RotoHalf(n, angle) ==
    IF n > 0 /\ n % 1000 = 0 /\ angle \in HalfRoundsUp THEN n \div 1000 + 1
    ELSE Max(CeilDiv(n, 1000), 1)

\* the largest power of two that is at most x, for 1 <= x < 128
Pow2Floor(x) == CHOOSE p \in {1, 2, 4, 8, 16, 32, 64} : p <= x /\ x < 2 * p

\* The same for a multiple of 90 degrees, where the sine or cosine that is 0
\* in the reals is |angle| / 90 * 6.1e-17 in doubles: big + z * that is big in
\* doubles unless it is more than half a unit in the last place of big
\* (2^-53 = 1.11e-16 for big = 1).
RotoAxis(big, z, angle) ==
    IF big = 0 THEN 1
    ELSE IF 551 * (Abs(angle) \div 90) * z > 1000 * Pow2Floor(big) THEN big + 1
    ELSE big

\* The size of pygame.transform.rotozoom(base, angle, 1) for a multiple of 30
\* degrees: the bounding box of the rotated centred source box, whose half
\* width and half height are w / 2 and h / 2 divided as ints, each half of
\* the result rounded up and at least 1.  At angle 0 nothing is rotated.
RotoSize(w, h, angle) ==
    LET x == w \div 2
        y == h \div 2
        c == AbsCos1000(angle)
        s == AbsSin1000(angle)
    IN  IF angle = 0 THEN << Max(w, 1), Max(h, 1) >>
        ELSE IF angle % 180 = 0
        THEN << 2 * RotoAxis(x, y, angle), 2 * RotoAxis(y, x, angle) >>
        ELSE IF angle % 90 = 0
        THEN << 2 * RotoAxis(y, x, angle), 2 * RotoAxis(x, y, angle) >>
        ELSE << 2 * RotoHalf(c * x + s * y, angle),
                2 * RotoHalf(s * x + c * y, angle) >>

\* A Surface: its size, the decoded data it was made from, and the
\* transformations applied to that data, in order.
Op(name, a, b) == [op |-> name, a |-> a, b |-> b]

NewSurface(w, h, org) == [w |-> w, h |-> h, org |-> org, ops |-> <<>>]

\* pygame.transform.rotozoom(base, angle, 1)
rotozoom(base, angle) ==
    LET sz == RotoSize(base.w, base.h, angle) IN
    [base EXCEPT !.w = sz[1], !.h = sz[2], !.ops = Append(@, Op("rotate", angle, 0))]

\* pygame.transform.smoothscale(base, (w, h))
smoothscale(base, w, h) ==
    [base EXCEPT !.w = w, !.h = h, !.ops = Append(@, Op("scale", w, h))]

\* pygame.transform.flip(base, True, False)
flip_surface(base) == [base EXCEPT !.ops = Append(@, Op("flip", 0, 0))]

(***************************************************************************)
(* The interpreter state threaded through one call: the cache, the heap,   *)
(* the value returned (ans), whether an exception is propagating (err),    *)
(* the number of smoothscale calls made (nscale) and the log of the        *)
(* get_transform calls made from outside get_transform.                    *)
(***************************************************************************)
St(known, heap) ==
    [known |-> known, surf |-> heap, ans |-> 0, err |-> FALSE, exc |-> "none",
     nscale |-> 0, log |-> <<>>]

\* a new Surface object on the heap; it is the value returned
Alloc(st, s) == [st EXCEPT !.surf = Append(@, s), !.ans = Len(st.surf) + 1]

\* cls._known_images[k] = surface
Store(st, k, surface) == [st EXCEPT !.known = Put(@, k, surface)]

Raise(st) == [st EXCEPT !.err = TRUE]

\* raise an exception of the named class
RaiseAs(st, exc) == [st EXCEPT !.err = TRUE, !.exc = exc]

\* _ImageCache.cache_surface
cache_surface(st, surface) ==
    LET sid == Sid(surface)
        key == ImageKey(sid, FALSE, 0, 0, 0)
    IN  IF key \notin DOMAIN st.known
        THEN Store(Store(st, key, surface),
                   ImageKey(sid, FALSE, st.surf[surface].w, st.surf[surface].h, 0),
                   surface)
        ELSE st

\* _get_filename, lines 1000-1006: image is the state after the file was
\* decoded, its value the new Surface
get_filename_cache(image, filename) ==
    [cache_surface(
        Store(Store(image, ImageKey(filename, FALSE, 0, 0, 0), image.ans),
              ImageKey(filename, FALSE, image.surf[image.ans].w, image.surf[image.ans].h, 0),
              image.ans),
        image.ans)
     EXCEPT !.ans = image.ans]

\* _ImageCache._get_filename
get_filename(st, filename) ==
    IF filename \in Undecodable THEN RaiseAs(st, "pygame.error")
    ELSE get_filename_cache(
        Alloc(st, NewSurface(FileSize(filename)[1], FileSize(filename)[2], filename)),
        filename)

\* _ImageCache._get_url: the file named like the URL's last path component is
\* used when it exists; otherwise the download fails with an OSError
get_url(st, url) ==
    LET filename == Basename(url) IN
    IF filename \in LocalFiles THEN get_filename(st, filename)
    ELSE RaiseAs(st, "OSError")

\* load_filename_or_url, lines 990-992: an OSError becomes a ValueError, any
\* other exception passes
except_OSError(r) ==
    IF r.err /\ r.exc = "OSError" THEN RaiseAs(r, "ValueError") ELSE r

\* _ImageCache.load_filename_or_url
load_filename_or_url(st, filename_or_url) ==
    LET key == ImageKey(filename_or_url, FALSE, 0, 0, 0) IN
    IF key \in DOMAIN st.known THEN [st EXCEPT !.ans = st.known[key]]
    ELSE IF filename_or_url \in LocalFiles
    THEN except_OSError(get_filename(st, filename_or_url))
    ELSE except_OSError(get_url(st, filename_or_url))

\* sheet.subsurface(Rect(x, y, w, h)): a new Surface on the pixels of the sheet
subsurface(base, x, y, w, h) ==
    [base EXCEPT !.w = w, !.h = h, !.ops = Append(@, Op("subsurface", x, y))]

\* floor(log2(num / den)), the exponent of the double nearest to num / den
RECURSIVE Log2Floor(_, _)
Log2Floor(num, den) ==
    IF num >= 2 * den THEN Log2Floor(num, 2 * den) + 1
    ELSE IF num < den THEN Log2Floor(2 * num, den) - 1
    ELSE 0

\* 2 ^ e, and 2 ^ e modulo m
RECURSIVE Pow2(_)
Pow2(e) == IF e = 0 THEN 1 ELSE 2 * Pow2(e - 1)
RECURSIVE Pow2Mod(_, _)
Pow2Mod(e, m) == IF e = 0 THEN 1 % m ELSE (2 * Pow2Mod(e - 1, m)) % m

\* load_sprite_sheet, lines 1044-1049: int(index * (length / count)), the left
\* edge of column index (the top edge of row index) as pygame.Rect cuts the
\* float down, for length > 0 and count > 0.  The quotient is a double of 53
\* bits with exponent k, so it lies r / count units of 2 ^ (k - 52) below
\* length / count when 0 < 2 * r < count, and at or above it otherwise; the
\* product is rounded to a double again.  A product that is not a whole
\* number keeps its floor, and so does any product of an exact quotient; one
\* that is the whole number n falls to the double below n when the quotient
\* was rounded down by more than half the distance from n to that double,
\* 2 ^ (j - 53), or 2 ^ (j - 54) for n = 2 ^ j.
ClipEdge(index, length, count) ==
    LET n == (index * length) \div count
        k == Log2Floor(length, count)
        r == ((length % count) * Pow2Mod(52 - k, count)) % count
        j == Log2Floor(n, 1)
        half == IF n = Pow2(j) THEN 4 ELSE 2
    IN  IF (index * length) % count # 0 \/ n = 0 \/ length % count = 0 THEN n
        ELSE IF 0 < 2 * r /\ 2 * r < count /\ half * index * r > count * Pow2(j - k)
        THEN n - 1
        ELSE n

\* load_sprite_sheet, lines 1046-1052: the frames from number i on, row by
\* row; cut holds those before.  pygame.Rect cuts the floats col * width,
\* row * height, width and height down to whole numbers.  range() of a
\* number below one is empty.
RECURSIVE sheet_frames(_, _, _, _, _, _)
sheet_frames(st, sheet, rows, columns, i, cut) ==
    IF rows < 1 \/ columns < 1 \/ i >= rows * columns THEN [st EXCEPT !.ans = cut]
    ELSE sheet_frames(
             Alloc(st, subsurface(st.surf[sheet],
                                  ClipEdge(i % columns, st.surf[sheet].w, columns),
                                  ClipEdge(i \div columns, st.surf[sheet].h, rows),
                                  st.surf[sheet].w \div columns,
                                  st.surf[sheet].h \div rows)),
             sheet, rows, columns, i + 1, Append(cut, Len(st.surf) + 1))

\* load_sprite_sheet, lines 1044-1052: sheet is the state after the load,
\* whose exceptions pass; the height and the width of a frame are quotients,
\* so no rows or no columns raise ZeroDivisionError with the sheet loaded
load_sprite_sheet_cut(sheet, rows, columns) ==
    IF sheet.err THEN sheet
    ELSE IF rows = 0 \/ columns = 0 THEN RaiseAs(sheet, "ZeroDivisionError")
    ELSE sheet_frames(sheet, sheet.ans, rows, columns, 0, <<>>)

\* load_sprite_sheet: the value is the list of the frames
load_sprite_sheet(st, filename_or_url, rows, columns) ==
    load_sprite_sheet_cut(load_filename_or_url(st, filename_or_url), rows, columns)

\* the texts a game renders, as (text, fontsize, color, bold, italic)
TextKeys == {<<"hi", 12, "red", FALSE, FALSE>>, <<"hi", 12, "red", TRUE, FALSE>>}

\* the size of the image font.render draws for a key, in a font that is one
\* pixel high and draws a pixel per character and one more, two more in bold
TextSize(key) == <<Len(key[1]) + (IF key[4] THEN 2 ELSE 1), 1>>

\* the result of render_text: the cache state and _known_text
T(st, text) == [st |-> st, text |-> text]

\* render_text that does not look the key up
render_text_fresh(st, text, key) ==
    LET image == Alloc(st, NewSurface(TextSize(key)[1], TextSize(key)[2], key[1]))
    IN  T(cache_surface(image, image.ans), Put(text, key, image.ans))

\* _ImageCache.render_text
render_text(st, text, key) ==
    IF key \in DOMAIN text THEN T([st EXCEPT !.ans = text[key]], text)
    ELSE render_text_fresh(st, text, key)

RECURSIVE get_transform(_, _, _, _, _, _)

\* cls._known_images[k] = img, for the new Surface img, which is the value
Cached(img, k) == Store(img, k, img.ans)

\* get_transform, lines 941-945: base is the state after the inner call
get_transform_rotate(base, k, angle) ==
    IF base.err THEN base
    ELSE Cached(Alloc(base, rotozoom(base.surf[base.ans], angle)), k)

\* get_transform, lines 947-951
get_transform_scale(base, k, w, h) ==
    IF base.err THEN base
    ELSE Cached(Alloc([base EXCEPT !.nscale = @ + 1],
                      smoothscale(base.surf[base.ans], w, h)), k)

\* get_transform that caches the unflipped image under the flipped key
get_transform_flip_plain(base, k) ==
    IF base.err THEN base ELSE Store(base, k, base.ans)

\* get_transform, lines 953-957
get_transform_flip(base, k) ==
    IF base.err THEN base
    ELSE Cached(Alloc(base, flip_surface(base.surf[base.ans])), k)

\* get_transform, lines 959-962
get_transform_load(img, k) == IF img.err THEN img ELSE Cached(img, k)

\* get_transform that computes without looking the key up
get_transform_ans_fresh(st, k, key, flip, w, h, angle) ==
    IF angle # 0 THEN get_transform_rotate(get_transform(st, key, flip, w, h, 0), k, angle)
    ELSE IF w # 0 \/ h # 0 THEN get_transform_scale(get_transform(st, key, flip, 0, 0, 0), k, w, h)
    ELSE IF flip THEN get_transform_flip(get_transform(st, key, FALSE, 0, 0, 0), k)
    ELSE get_transform_load(load_filename_or_url(st, key), k)

\* get_transform, lines 938-962: the cache hit and the four branches
get_transform_ans(st, k, key, flip, w, h, angle) ==
    IF k \in DOMAIN st.known THEN [st EXCEPT !.ans = st.known[k]]
    ELSE IF angle # 0 THEN get_transform_rotate(get_transform(st, key, flip, w, h, 0), k, angle)
    ELSE IF w # 0 \/ h # 0 THEN get_transform_scale(get_transform(st, key, flip, 0, 0, 0), k, w, h)
    ELSE IF flip THEN get_transform_flip(get_transform(st, key, FALSE, 0, 0, 0), k)
    ELSE get_transform_load(load_filename_or_url(st, key), k)

\* get_transform without line 970: nothing is cached under the image's own size
get_transform_alias_skip(ans, tmp, key, flip, angle) ==
    [tmp EXCEPT !.ans = ans.ans]

\* get_transform, line 970: a request at the default size is also cached under
\* the width and height of tmp.  ans is the state after the branches, tmp the
\* state after the call for the unrotated image.
get_transform_alias(ans, tmp, key, flip, angle) ==
    [Store(tmp, ImageKey(key, flip, tmp.surf[tmp.ans].w, tmp.surf[tmp.ans].h, angle), ans.ans)
        EXCEPT !.ans = ans.ans]

\* get_transform, lines 964-972
get_transform_natural(ans, key, flip, w, h, angle) ==
    IF ans.err THEN ans
    ELSE IF w = 0 /\ h = 0
    THEN IF angle # 0
         THEN get_transform_alias(ans, get_transform(ans, key, flip, w, h, 0), key, flip, angle)
         ELSE get_transform_alias(ans, ans, key, flip, angle)
    ELSE ans

\* _ImageCache.get_transform
get_transform(st, key, flip, w, h, angle) ==
    get_transform_natural(
        get_transform_ans(st, ImageKey(key, flip, w, h, angle), key, flip, w, h, angle),
        key, flip, w, h, angle)

\* the keys get_transform resolves a key through (lines 940-962): the key,
\* the unrotated key, the key at the default size and the unflipped key
Chain(k) ==
    {k} \cup (IF k[5] # 0 THEN {ImageKey(k[1], k[2], k[3], k[4], 0)} ELSE {})
        \cup (IF k[3] # 0 \/ k[4] # 0 THEN {ImageKey(k[1], k[2], 0, 0, 0)} ELSE {})
        \cup (IF k[2] THEN {ImageKey(k[1], FALSE, 0, 0, 0)} ELSE {})

\* A get_transform call made from outside get_transform, with its record in
\* the log: the arguments, the Surface returned, the smoothscale calls it
\* made, the entries it added, the Surfaces it created and the keys of its
\* chain that were not cached when it was called.
CallRecord(st, r, k) ==
    [args |-> k, ans |-> r.ans, nscale |-> r.nscale,
     added |-> Cardinality(DOMAIN r.known) - Cardinality(DOMAIN st.known),
     made |-> Len(r.surf) - Len(st.surf),
     missing |-> Cardinality(Chain(k) \ DOMAIN st.known)]

Logged(st, r, k) ==
    IF r.err THEN r ELSE [r EXCEPT !.log = Append(@, CallRecord(st, r, k))]

call_get_transform(st, key, flip, w, h, angle) ==
    Logged(st, get_transform([st EXCEPT !.nscale = 0], key, flip, w, h, angle),
           ImageKey(key, flip, w, h, angle))

(***************************************************************************)
(* SpriteBox.  An attribute that was never assigned is Unset (reading it   *)
(* raises AttributeError); None is Python's None.  A width, height or      *)
(* scale factor that Python holds as a float is the fraction <<n, d>>.     *)
(***************************************************************************)
\* no reference given (image = None)
NoneRef == <<"none">>
NoneKey == <<>>
UnsetKey == <<"unset">>
NoneImage == 0
UnsetImage == -1
NoneColor == "None"
UnsetColor == "unset"
UnsetNum == -1
\* an argument left at its default None
NoArg == -1000

Frac(n) == <<n, 1>>

\* int(q + 0.5) for a fraction q >= 0
IntRound(q) == (2 * q[1] + q[2]) \div (2 * q[2])

\* a string reference and a Surface reference
Str(name) == <<"str", name>>
Surf(surface) == <<"surface", surface>>
IsSurface(name) == name[1] = "surface"

\* a variable of the program that holds no SpriteBox yet
NoBox == [x |-> 0, y |-> 0, speedx |-> 0, speedy |-> 0,
          key |-> <<"nobox">>, image |-> UnsetImage, color |-> UnsetColor,
          w |-> UnsetNum, h |-> UnsetNum]

\* the outcome of a method: the interpreter state and the object
R(st, self) == [st |-> st, self |-> self]

\* the angle of the key, line 550: ((int(angle) % 360) + 360) % 360 for a
\* fraction; int() cuts towards zero
NormAngle(angle) ==
    LET whole == IF angle[1] < 0 THEN 0 - ((0 - angle[1]) \div angle[2])
                 ELSE angle[1] \div angle[2]
    IN  ((whole % 360) + 360) % 360

\* _set_key, lines 556-560: s2 is the state after the second get_transform.
\* self._key is assigned before that call, so it is set even if the call raises.
set_key_image(s2, self, k) ==
    IF s2.err THEN R(s2, [self EXCEPT !.key = k])
    ELSE R(s2, [self EXCEPT !.key = k, !.image = s2.ans, !.color = NoneColor,
                            !.w = s2.surf[s2.ans].w, !.h = s2.surf[s2.ans].h])

\* _set_key, lines 555-556: the key is made and the image is asked for
set_key_key(unrot, self, key, flip, width, height, angle) ==
    set_key_image(call_get_transform(unrot, key, flip, width, height, angle), self,
                  ImageKey(key, flip, width, height, angle))

\* _set_key, lines 552-554: unrot is the state after the first get_transform;
\* a size of (0, 0) is replaced by the size of the unrotated image
set_key_size(unrot, self, key, flip, width, height, angle) ==
    IF unrot.err THEN R(unrot, self)
    ELSE IF width = 0 /\ height = 0
    THEN set_key_key(unrot, self, key, flip,
                     unrot.surf[unrot.ans].w, unrot.surf[unrot.ans].h, angle)
    ELSE set_key_key(unrot, self, key, flip, width, height, angle)

\* _set_key, lines 547-551: the rounded arguments and the first get_transform
set_key_unrot(s0, self, key, flip, width, height, angle) ==
    set_key_size(call_get_transform(s0, key, flip, width, height, 0),
                 self, key, flip, width, height, angle)

\* SpriteBox._set_key
set_key(st, self, name, flip, width, height, angle) ==
    set_key_unrot(IF IsSurface(name) THEN cache_surface(st, name[2]) ELSE st, self,
                  IF IsSurface(name) THEN Sid(name[2]) ELSE name[2], flip,
                  IntRound(width), IntRound(height), NormAngle(angle))

\* SpriteBox.scale_by; the flat sizes of the model stay whole numbers
scale_by(st, self, multiplier) ==
    IF self.key = UnsetKey THEN R(Raise(st), self)
    ELSE IF self.key = NoneKey
    THEN IF self.w = UnsetNum THEN R(Raise(st), self)
         ELSE R(st, [self EXCEPT !.w = (@ * multiplier[1]) \div multiplier[2],
                                 !.h = (@ * multiplier[1]) \div multiplier[2]])
    ELSE LET key == self.key IN
         set_key(st, self, Str(key[1]), key[2],
                 <<key[3] * multiplier[1], multiplier[2]>>,
                 <<key[4] * multiplier[1], multiplier[2]>>, Frac(key[5]))

\* the flat sizes stay whole numbers under this factor
Exact(self, multiplier) ==
    self.key = NoneKey /\ self.w # UnsetNum =>
        /\ (self.w * multiplier[1]) % multiplier[2] = 0
        /\ (self.h * multiplier[1]) % multiplier[2] = 0

\* SpriteBox.width setter
set_width(st, self, value) ==
    IF self.w = UnsetNum \/ self.w = 0 THEN R(Raise(st), self)
    ELSE scale_by(st, self, <<value, self.w>>)

\* SpriteBox.height setter
set_height(st, self, value) ==
    IF self.h = UnsetNum \/ self.h = 0 THEN R(Raise(st), self)
    ELSE scale_by(st, self, <<value, self.h>>)

\* SpriteBox.size setter
set_size(st, self, value) ==
    IF self.image = UnsetImage THEN R(Raise(st), self)
    ELSE IF self.image # NoneImage /\ self.key # NoneKey
    THEN LET key == self.key IN
         set_key(st, self, Str(key[1]), key[2], Frac(value[1]), Frac(value[2]), Frac(key[5]))
    ELSE R(st, [self EXCEPT !.w = value[1], !.h = value[2]])

\* a color setter that keeps the key and the image
set_color_keep(st, self, value) == R(st, [self EXCEPT !.color = value])

\* SpriteBox.color setter
set_color(st, self, value) ==
    R(st, [self EXCEPT !.image = NoneImage, !.key = NoneKey, !.color = value])

\* an image setter that starts a fresh key on every box
set_image_fresh(st, self, value) ==
    IF self.key = UnsetKey THEN R(Raise(st), self)
    ELSE set_key(st, self, value, FALSE, Frac(0), Frac(0), Frac(0))

\* SpriteBox.image setter
set_image(st, self, value) ==
    IF self.key = UnsetKey THEN R(Raise(st), self)
    ELSE IF self.key # NoneKey
    THEN LET key == self.key IN
         set_key(st, self, value, key[2], Frac(key[3]), Frac(key[4]), Frac(key[5]))
    ELSE set_key(st, self, value, FALSE, Frac(0), Frac(0), Frac(0))

\* a full_size that keeps the size of the key
full_size_keep(st, self) ==
    IF self.key = UnsetKey THEN R(Raise(st), self)
    ELSE IF self.key = NoneKey THEN R(st, self)
    ELSE LET key == self.key IN
         set_key(st, self, Str(key[1]), key[2], Frac(key[3]), Frac(key[4]), Frac(key[5]))

\* SpriteBox.full_size
full_size(st, self) ==
    IF self.key = UnsetKey THEN R(Raise(st), self)
    ELSE IF self.key = NoneKey THEN R(st, self)
    ELSE LET key == self.key IN
         set_key(st, self, Str(key[1]), key[2], Frac(0), Frac(0), Frac(key[5]))

\* SpriteBox.flip
flip(st, self) ==
    IF self.key = UnsetKey THEN R(Raise(st), self)
    ELSE IF self.key = NoneKey THEN R(st, self)
    ELSE LET key == self.key IN
         set_key(st, self, Str(key[1]), ~key[2], Frac(key[3]), Frac(key[4]), Frac(key[5]))

\* a rotate that turns a flat box on its side
rotate_flat(st, self, angle) ==
    IF self.key = UnsetKey THEN R(Raise(st), self)
    ELSE IF self.key = NoneKey THEN R(st, [self EXCEPT !.w = self.h, !.h = self.w])
    ELSE LET key == self.key IN
         set_key(st, self, Str(key[1]), key[2], Frac(key[3]), Frac(key[4]),
                 <<key[5] * angle[2] + angle[1], angle[2]>>)

\* SpriteBox.rotate
rotate(st, self, angle) ==
    IF self.key = UnsetKey THEN R(Raise(st), self)
    ELSE IF self.key = NoneKey THEN R(st, self)
    ELSE LET key == self.key IN
         set_key(st, self, Str(key[1]), key[2], Frac(key[3]), Frac(key[4]),
                 <<key[5] * angle[2] + angle[1], angle[2]>>)

\* __init__, lines 476-482: r is the outcome of _set_key
init_size(r, w, h) ==
    IF r.st.err THEN r
    ELSE IF w # NoArg
         THEN IF h # NoArg THEN set_size(r.st, r.self, <<w, h>>)
              ELSE set_width(r.st, r.self, w)
         ELSE IF h # NoArg THEN set_height(r.st, r.self, h)
         ELSE r

\* SpriteBox.__init__
init(st, x, y, image, color, w, h) ==
    LET self == [x |-> x, y |-> y, speedx |-> 0, speedy |-> 0,
                 key |-> UnsetKey, image |-> UnsetImage, color |-> UnsetColor,
                 w |-> UnsetNum, h |-> UnsetNum]
    IN  IF image # NoneRef
        THEN init_size(set_key(st, self, image, FALSE, Frac(0), Frac(0), Frac(0)), w, h)
        ELSE IF color # NoneColor
        THEN IF w = NoArg \/ h = NoArg THEN R(RaiseAs(st, "ValueError"), self)
             ELSE R(st, [self EXCEPT !.key = NoneKey, !.image = NoneImage,
                                     !.color = color, !.w = w, !.h = h])
        ELSE R(st, self)

\* from_image, line 500: image is the state after the load at lines 496-499
from_image_loaded(image, x, y) ==
    IF image.err THEN R(image, NoBox)
    ELSE init(image, x, y, Surf(image.ans), NoneColor, NoArg, NoArg)

\* SpriteBox.from_image
from_image(st, x, y, filename_or_url) ==
    IF IsSurface(filename_or_url)
    THEN init(cache_surface(st, filename_or_url[2]), x, y, filename_or_url, NoneColor, NoArg, NoArg)
    ELSE from_image_loaded(load_filename_or_url(st, filename_or_url[2]), x, y)

\* SpriteBox.from_color
from_color(st, x, y, color, width, height) == init(st, x, y, NoneRef, color, width, height)

\* cls(x, y, img, None) for the Surface img has just made
from_drawn(img, x, y) == init(img, x, y, Surf(img.ans), NoneColor, NoArg, NoArg)

\* from_circle, lines 513-516: what is drawn on the Surface, the circles of
\* args = (color2, radius2, ...) after the first
RECURSIVE draw_circles(_, _, _)
draw_circles(drawn, args, i) ==
    IF i + 1 > Len(args) THEN drawn
    ELSE draw_circles(drawn \o " " \o args[i] \o " " \o ToString(args[i + 1]), args, i + 2)

\* SpriteBox.from_circle
from_circle(st, x, y, color, radius, args) ==
    from_drawn(Alloc(st, NewSurface(radius * 2, radius * 2,
                                    draw_circles("circle " \o color \o " " \o ToString(radius),
                                                 args, 1))),
               x, y)

MinOf(S) == CHOOSE m \in S : \A n \in S : m <= n
MaxOf(S) == CHOOSE m \in S : \A n \in S : m >= n

\* from_polygon, line 528: the polygon drawn, its points moved by (-x0, -y0)
RECURSIVE draw_polygon(_, _, _, _, _)
draw_polygon(drawn, pts, x0, y0, i) ==
    IF i > Len(pts) THEN drawn
    ELSE draw_polygon(drawn \o " " \o ToString(pts[i][1] - x0) \o "," \o ToString(pts[i][2] - y0),
                      pts, x0, y0, i + 1)

\* from_polygon, lines 523-529, with x0, y0 and the size found
from_polygon_sized(st, x, y, color, pts, x0, y0, w, h) ==
    from_drawn(Alloc(st, NewSurface(w, h, draw_polygon("polygon " \o color, pts, x0, y0, 1))),
               x, y)

\* SpriteBox.from_polygon
from_polygon(st, x, y, color, pts) ==
    from_polygon_sized(st, x, y, color, pts,
                       MinOf({pts[i][1] : i \in DOMAIN pts}),
                       MinOf({pts[i][2] : i \in DOMAIN pts}),
                       MaxOf({pts[i][1] : i \in DOMAIN pts}) - MinOf({pts[i][1] : i \in DOMAIN pts}),
                       MaxOf({pts[i][2] : i \in DOMAIN pts}) - MinOf({pts[i][2] : i \in DOMAIN pts}))

\* the outcome of a call that also renders text: r and _known_text
WithText(r, text) == [st |-> r.st, self |-> r.self, text |-> text]

\* SpriteBox.from_text
from_text(st, text, x, y, key) ==
    WithText(from_drawn(render_text(st, text, key).st, x, y), render_text(st, text, key).text)

\* SpriteBox.copy_at
copy_at(st, self, newx, newy) ==
    IF self.image = UnsetImage \/ self.w = UnsetNum THEN R(Raise(st), self)
    ELSE init(st, newx, newy,
              IF self.image = NoneImage THEN NoneRef ELSE Surf(self.image),
              self.color, self.w, self.h)

\* SpriteBox.copy
copy(st, self) == copy_at(st, self, self.x, self.y)

(***************************************************************************)
(* The event loop: timer_loop, freeze_loop, stop_loop.                     *)
(*                                                                         *)
(* pygame's event queue is a sequence, oldest event first.  The timer,     *)
(* the window and the keyboard append events to it while the loop waits    *)
(* and while the callback runs; pygame.event.wait() takes the oldest.      *)
(***************************************************************************)
\* pygame.event.Event: its type and, for a key event, its key
Event(type, key) == [type |-> type, key |-> key]
Tick == Event("USEREVENT", "none")
QuitEvent == Event("QUIT", "none")

\* the keys of the keyboard
Keys == {"K_a", "K_ESCAPE"}

IsTick(e) == e.type = "USEREVENT"
NotTick(e) == e.type # "USEREVENT"

\* the tick events of a queue
Ticks(q) == Len(SelectSeq(q, IsTick))

\* a loop that discards no pending tick
event_clear_skip(q) == q

\* pygame.event.clear(pygame.USEREVENT)
event_clear(q) == SelectSeq(q, NotTick)

\* the loop condition: "while not limit or frames < limit"; limit is NoArg
\* when the game gave none
loop_continues(lim, fr) == lim = NoArg \/ lim = 0 \/ fr < lim

\* a return value that is True whenever a limit was given
loop_returns_given(lim, fr) == lim # NoArg

\* the return value: "return limit == frames"
loop_returns(lim, fr) == lim # NoArg /\ lim = fr

\* what an observer of the loop has recorded:
\*   ncalls              the invocations of the callback
\*   left, discarded     the ticks pending when the callback was last
\*                       invoked, and the ticks discarded just before
\*   stopped, frozen     stop_loop() or freeze_loop() has been called, with
\*                       ncalls and the key set at that moment
\*   since               the keys whose key-down the loop has handled since
\*                       the last tick (from the first tick on)
\*   missed              those of them absent from the key set the callback
\*                       was last invoked with
\*   ended               how the loop ended
\*   last_key            for each key, the kind of its key event the loop
\*                       handled last
NoObs ==
    [ncalls |-> 0, left |-> 0, discarded |-> 0,
     stopped |-> FALSE, stop_calls |-> 0, stop_keys |-> {},
     frozen |-> FALSE, freeze_calls |-> 0,
     since |-> {}, missed |-> {}, ended |-> "no",
     last_key |-> [k \in Keys |-> "none"]]

\* timer_loop has not been called
LoopIdle ==
    /\ queue = <<>>
    /\ timer = FALSE
    /\ pc = "idle"
    /\ frames = 0
    /\ limit = NoArg
    /\ keys = {}
    /\ result = FALSE
    /\ obs = NoObs

\* no Camera has been constructed: Camera.instance is None
NoCamera == [id |-> 0, x |-> 0, y |-> 0, w |-> 0, h |-> 0]

\* no sample game is loaded; the mouse rests at the corner of the window
NoGame == [name |-> "none"]
NoMouse == [pos |-> <<0, 0>>, pressed |-> FALSE]

\* no Camera, no added field, nothing written, no sample game
CameraIdle ==
    /\ camera = NoCamera
    /\ attrs = [box |-> EmptyDict, camera |-> EmptyDict]
    /\ stderr = <<>>
    /\ game = NoGame
    /\ mouse = NoMouse

(***************************************************************************)
(* The program: calls of the library by a game.                            *)
(***************************************************************************)
\* the variables of the game that hold a SpriteBox: the game applies every
\* operation to the first, and builds, flips and resets the size of the second
Boxes == {1, 2}

Cur == St(known_images, surfaces)

\* the record of the operation a step made: its name, the boxes before it
\* and its padding arguments
NoOp == [op |-> "none", pre |-> <<>>, padding |-> 0, padding2 |-> 0]

\* the library returned (or raised): its effects on the cache and the heap
Commit(st) ==
    /\ Len(st.surf) <= MaxSurfaces
    /\ known_images' = st.known
    /\ surfaces' = st.surf

\* a constructor: the variable holds the new object unless it raised; text is
\* _known_text after it
ConstructText(b, r, text) ==
    /\ boxes[b] = NoBox
    /\ \A c \in Boxes : c < b => boxes[c] # NoBox
    /\ Commit(r.st)
    /\ boxes' = IF r.st.err THEN boxes ELSE [boxes EXCEPT ![b] = r.self]
    /\ known_text' = text
    /\ UNCHANGED <<calls, last, loopvars, uivars>>

Construct(b, r) == ConstructText(b, r, known_text)

\* a method of the object held by b
Method(b, r) ==
    /\ boxes[b] # NoBox
    /\ Commit(r.st)
    /\ r.self.w <= MaxDim /\ r.self.h <= MaxDim
    /\ boxes' = [boxes EXCEPT ![b] = r.self]
    /\ UNCHANGED <<calls, last, loopvars, known_text, uivars>>

NewBox(b) ==
    \E color \in {NoneColor, "red"}, w \in {NoArg, 2}, h \in {NoArg, 2} :
        Construct(b, init(Cur, 3, 5, NoneRef, color, w, h))

FromImage(b) ==
    \E ref \in {"a.png"} \cup BadRefs : Construct(b, from_image(Cur, 3, 5, Str(ref)))

FromColor(b) == Construct(b, from_color(Cur, 3, 5, "red", 4, 2))

\* one circle, or a smaller circle on it
FromCircle(b) ==
    \E args \in {<<>>, <<"blue", 1>>} : Construct(b, from_circle(Cur, 3, 5, "red", 2, args))

\* a triangle, and the same triangle with every point moved by (1, 1)
FromPolygon(b) ==
    \E pts \in {<<(<<0, 0>>), (<<4, 0>>), (<<4, 2>>)>>, <<(<<1, 1>>), (<<5, 1>>), (<<5, 3>>)>>} :
        Construct(b, from_polygon(Cur, 3, 5, "red", pts))

FromText(b) ==
    \E key \in TextKeys :
        ConstructText(b, from_text(Cur, known_text, 3, 5, key),
                      from_text(Cur, known_text, 3, 5, key).text)

SetColor(b) == Method(b, set_color(Cur, boxes[b], "blue"))

SetImage(b) == \E ref \in {"a.png"} \cup BadRefs : Method(b, set_image(Cur, boxes[b], Str(ref)))

SetSize(b) == Method(b, set_size(Cur, boxes[b], <<2, 2>>))

SetWidth(b) ==
    /\ boxes[b].w > 0 => Exact(boxes[b], <<2, boxes[b].w>>)
    /\ Method(b, set_width(Cur, boxes[b], 2))

SetHeight(b) ==
    /\ boxes[b].h > 0 => Exact(boxes[b], <<4, boxes[b].h>>)
    /\ Method(b, set_height(Cur, boxes[b], 4))

\* the factors the game scales by
Factors == {<<1, 2>>, <<2, 1>>, <<1, 16>>}

ScaleBy(b) ==
    \E f \in Factors :
        /\ Exact(boxes[b], f)
        /\ Method(b, scale_by(Cur, boxes[b], f))

Flip(b) == Method(b, flip(Cur, boxes[b]))

\* rotations by whole degrees and by 120.5 degrees
Rotate(b) ==
    \E d \in {Frac(120), Frac(-120), Frac(360), <<241, 2>>} :
        Method(b, rotate(Cur, boxes[b], d))

FullSize(b) == Method(b, full_size(Cur, boxes[b]))

CopyAt(b) ==
    \E c \in Boxes :
        /\ boxes[c] # NoBox
        /\ Construct(b, copy_at(Cur, boxes[c], 1, 1))

Copy(b) ==
    \E c \in Boxes :
        /\ boxes[c] # NoBox
        /\ Construct(b, copy(Cur, boxes[c]))

InitBox ==
    /\ known_images = EmptyDict
    /\ surfaces = <<>>
    /\ boxes = [b \in Boxes |-> NoBox]
    /\ calls = <<>>
    /\ last = NoOp
    /\ LoopIdle
    /\ known_text = EmptyDict
    /\ CameraIdle

NextBox ==
    \/ \E b \in {1} :
        \/ NewBox(b)
        \/ FromColor(b)
        \/ SetColor(b)
        \/ SetImage(b)
        \/ SetSize(b)
        \/ SetWidth(b)
        \/ SetHeight(b)
        \/ ScaleBy(b)
        \/ Rotate(b)
    \/ \E b \in Boxes :
        \/ FromImage(b)
        \/ Flip(b)
        \/ FullSize(b)
    \/ \E b \in {2} :
        \/ FromCircle(b)
        \/ FromPolygon(b)
        \/ FromText(b)

SpecBox == InitBox /\ [][NextBox]_vars

(***************************************************************************)
(* A game that copies its box: it builds the first box, flips, rotates and *)
(* scales it and gives it a color, copies it into the second variable at   *)
(* any time, and goes on with both.                                        *)
(***************************************************************************)
InitCopy == InitBox

NextCopy ==
    \/ \E b \in {1} :
        \/ FromImage(b)
        \/ FromColor(b)
        \/ FromText(b)
        \/ SetColor(b)
        \/ ScaleBy(b)
    \/ \E b \in {2} :
        \/ CopyAt(b)
        \/ Copy(b)
    \/ \E b \in Boxes :
        \/ Flip(b)
        \/ Rotate(b)
        \/ FullSize(b)

SpecCopy == InitCopy /\ [][NextCopy]_vars

(***************************************************************************)
(* Direct use of _ImageCache.                                              *)
(***************************************************************************)
\* the arguments the cache is called with
CacheKeys == {"a.png", "http://h/a.png", "gone.png"}
CacheSizes == {<<0, 0>>, <<4, 2>>}
CacheAngles == {0, -120, 240}

\* the record of a load_filename_or_url call in the log
LoadRecord(st, r, ref) ==
    [args |-> <<"load", ref>>, ans |-> r.ans, nscale |-> 0,
     added |-> Cardinality(DOMAIN r.known) - Cardinality(DOMAIN st.known)]

CommitLogged(st) ==
    /\ Len(st.surf) <= MaxCacheSurfaces
    /\ Commit(st)
    /\ calls' = st.log
    /\ UNCHANGED <<boxes, last, loopvars, known_text, uivars>>

GetTransform ==
    \E key \in CacheKeys, fl \in BOOLEAN, sz \in CacheSizes, angle \in CacheAngles :
        CommitLogged(call_get_transform(Cur, key, fl, sz[1], sz[2], angle))

LoadFilenameOrUrl ==
    \E ref \in Refs :
        LET r == load_filename_or_url(Cur, ref) IN
        CommitLogged(IF r.err THEN r ELSE [r EXCEPT !.log = <<LoadRecord(Cur, r, ref)>>])

\* the record of a load_sprite_sheet call in the log
SheetRecord(st, r, ref, rows, columns) ==
    [args |-> <<"sheet", ref, rows, columns>>, ans |-> r.ans, nscale |-> 0,
     added |-> Cardinality(DOMAIN r.known) - Cardinality(DOMAIN st.known)]

\* a sheet of two frames side by side and one of no columns, of a file, and a
\* sheet of a missing file
LoadSpriteSheet ==
    \E sheet \in {<<"a.png", 2>>, <<"a.png", 0>>, <<"gone.png", 2>>} :
        LET r == load_sprite_sheet(Cur, sheet[1], 1, sheet[2]) IN
        CommitLogged(IF r.err THEN r
                     ELSE [r EXCEPT !.log = <<SheetRecord(Cur, r, sheet[1], 1, sheet[2])>>])

\* the record of a render_text call in the log
RenderRecord(r, key) ==
    [args |-> <<"render">> \o key, ans |-> r.st.ans, nscale |-> 0,
     added |-> Cardinality(DOMAIN r.st.known) - Cardinality(DOMAIN known_images)]

RenderText ==
    \E key \in TextKeys :
        LET r == render_text(Cur, known_text, key) IN
        /\ Len(r.st.surf) <= MaxCacheSurfaces
        /\ Commit(r.st)
        /\ calls' = <<RenderRecord(r, key)>>
        /\ known_text' = r.text
        /\ UNCHANGED <<boxes, last, loopvars, uivars>>

\* get_transform on the identity key of a rendered text
GetTransformText ==
    \E t \in DOMAIN known_text, fl \in BOOLEAN, sz \in CacheSizes, angle \in CacheAngles :
        CommitLogged(call_get_transform(Cur, Sid(known_text[t]), fl, sz[1], sz[2], angle))

InitCache == InitBox

NextCache ==
    GetTransform \/ LoadFilenameOrUrl \/ LoadSpriteSheet \/ RenderText \/ GetTransformText

SpecCache == InitCache /\ [][NextCache]_vars

(***************************************************************************)
(* SpriteBox geometry and collisions.  Positions, sizes, speeds and        *)
(* paddings are floats in the program; here they are whole numbers of      *)
(* 1/Unit pixel, and the sizes are even, so that every w / 2 is exact.     *)
(***************************************************************************)
\* one pixel, in the units of the geometry
Unit == 2

left(self) == self.x - self.w \div 2
right(self) == self.x + self.w \div 2
top(self) == self.y - self.h \div 2
bottom(self) == self.y + self.h \div 2

\* padding2 after "if padding2 is None: padding2 = padding"
PadY(padding, padding2) == IF padding2 = NoArg THEN padding ELSE padding2

\* max(l, r, t, b)
Max4(l, r, t, b) == Max(Max(l, r), Max(t, b))

\* SpriteBox.overlap with the third check reading t before r
overlap_t_first(self, other, padding, padding2) ==
    LET p2 == IF padding2 = NoArg THEN padding ELSE padding2
        l == left(other) - right(self) - padding
        r == left(self) - right(other) - padding
        t == top(other) - bottom(self) - p2
        b == top(self) - bottom(other) - p2
        m == Max4(l, r, t, b)
    IN  IF m >= 0 THEN <<0, 0>>
        ELSE IF m = t THEN <<0, t>>
        ELSE IF m = l THEN <<l, 0>>
        ELSE IF m = r THEN <<-r, 0>>
        ELSE <<0, -b>>

\* SpriteBox.overlap returning (r, 0) where the code returns (-r, 0)
overlap_r_unsigned(self, other, padding, padding2) ==
    LET p2 == IF padding2 = NoArg THEN padding ELSE padding2
        l == left(other) - right(self) - padding
        r == left(self) - right(other) - padding
        t == top(other) - bottom(self) - p2
        b == top(self) - bottom(other) - p2
        m == Max4(l, r, t, b)
    IN  IF m >= 0 THEN <<0, 0>>
        ELSE IF m = l THEN <<l, 0>>
        ELSE IF m = r THEN <<r, 0>>
        ELSE IF m = t THEN <<0, t>>
        ELSE <<0, -b>>

\* SpriteBox.overlap
overlap(self, other, padding, padding2) ==
    LET p2 == IF padding2 = NoArg THEN padding ELSE padding2
        l == left(other) - right(self) - padding
        r == left(self) - right(other) - padding
        t == top(other) - bottom(self) - p2
        b == top(self) - bottom(other) - p2
        m == Max4(l, r, t, b)
    IN  IF m >= 0 THEN <<0, 0>>
        ELSE IF m = l THEN <<l, 0>>
        ELSE IF m = r THEN <<-r, 0>>
        ELSE IF m = t THEN <<0, t>>
        ELSE <<0, -b>>

\* touches with a strict comparison
touches_strict(self, other, padding, padding2) ==
    LET p2 == IF padding2 = NoArg THEN padding ELSE padding2
        l == left(other) - right(self) - padding
        r == left(self) - right(other) - padding
        t == top(other) - bottom(self) - p2
        b == top(self) - bottom(other) - p2
    IN  Max4(l, r, t, b) < 0

\* SpriteBox.touches
touches(self, other, padding, padding2) ==
    LET p2 == IF padding2 = NoArg THEN padding ELSE padding2
        l == left(other) - right(self) - padding
        r == left(self) - right(other) - padding
        t == top(other) - bottom(self) - p2
        b == top(self) - bottom(other) - p2
    IN  Max4(l, r, t, b) <= 0

\* SpriteBox.bottom_touches: overlap is asked with one more pixel of padding
bottom_touches(self, other, padding, padding2) ==
    overlap(self, other, padding + Unit, PadY(padding, padding2) + Unit)[2] < 0

\* SpriteBox.top_touches
top_touches(self, other, padding, padding2) ==
    overlap(self, other, padding + Unit, PadY(padding, padding2) + Unit)[2] > 0

\* SpriteBox.left_touches
left_touches(self, other, padding, padding2) ==
    overlap(self, other, padding + Unit, PadY(padding, padding2) + Unit)[1] > 0

\* SpriteBox.right_touches
right_touches(self, other, padding, padding2) ==
    overlap(self, other, padding + Unit, PadY(padding, padding2) + Unit)[1] < 0

\* contains with the edges of the box inside
contains_closed(self, x, y) ==
    Abs(x - self.x) * 2 <= self.w /\ Abs(y - self.y) * 2 <= self.h

\* SpriteBox.contains(x, y)
contains(self, x, y) ==
    Abs(x - self.x) * 2 < self.w /\ Abs(y - self.y) * 2 < self.h

\* SpriteBox.contains(coords), for a tuple or another sequence: the answer, or
\* a ValueError, or the IndexError of coords[0] or coords[1]
contains_coords(self, coords) ==
    IF Len(coords) > 2 THEN [err |-> TRUE, exc |-> "ValueError", ans |-> FALSE]
    ELSE IF Len(coords) < 2 THEN [err |-> TRUE, exc |-> "IndexError", ans |-> FALSE]
    ELSE [err |-> FALSE, exc |-> "none", ans |-> contains(self, coords[1], coords[2])]

\* SpriteBox.move(x, y)
move(self, x, y) == [self EXCEPT !.x = @ + x, !.y = @ + y]

\* the setter of SpriteBox.speed: self.speedx, self.speedy = value
set_speed(self, value) == [self EXCEPT !.speedx = value[1], !.speedy = value[2]]

\* the setters of SpriteBox.xspeed and SpriteBox.yspeed
set_xspeed(self, value) == [self EXCEPT !.speedx = value]
set_yspeed(self, value) == [self EXCEPT !.speedy = value]

\* SpriteBox.move_speed
move_speed(self) == move(self, self.speedx, self.speedy)

\* the outcome of a method on two boxes
R2(self, other) == [self |-> self, other |-> other]

\* move_to_stop_overlapping pushing by half the overlap
move_to_stop_overlapping_half(self, other, padding, padding2) ==
    LET o == overlap(self, other, padding, padding2) IN
    IF o # <<0, 0>> THEN R2(move(self, o[1] \div 2, o[2] \div 2), other) ELSE R2(self, other)

\* move_to_stop_overlapping stopping the box, as its docstring says
move_to_stop_overlapping_stop(self, other, padding, padding2) ==
    LET o == overlap(self, other, padding, padding2) IN
    IF o # <<0, 0>>
    THEN R2([move(self, o[1], o[2]) EXCEPT !.speedx = 0, !.speedy = 0], other)
    ELSE R2(self, other)

\* SpriteBox.move_to_stop_overlapping
move_to_stop_overlapping(self, other, padding, padding2) ==
    LET o == overlap(self, other, padding, padding2) IN
    IF o # <<0, 0>>
    THEN LET s1 == move(self, o[1], o[2])
             s2 == IF o[1] * s1.speedx < 0 THEN [s1 EXCEPT !.speedx = 0] ELSE s1
             s3 == IF o[2] * s2.speedy < 0 THEN [s2 EXCEPT !.speedy = 0] ELSE s2
         IN  R2(s3, other)
    ELSE R2(self, other)

\* move_both_to_stop_overlapping averaging the speeds on both axes
move_both_to_stop_overlapping_all(self, other, padding, padding2) ==
    LET o == overlap(self, other, padding, padding2) IN
    IF o # <<0, 0>>
    THEN R2([move(self, o[1] \div 2, o[2] \div 2)
                EXCEPT !.speedx = (self.speedx + other.speedx) \div 2,
                       !.speedy = (self.speedy + other.speedy) \div 2],
            [move(other, (0 - o[1]) \div 2, (0 - o[2]) \div 2)
                EXCEPT !.speedx = (self.speedx + other.speedx) \div 2,
                       !.speedy = (self.speedy + other.speedy) \div 2])
    ELSE R2(self, other)

\* SpriteBox.move_both_to_stop_overlapping; the halves are exact in the calls
\* the game makes (HalvesExact)
move_both_to_stop_overlapping(self, other, padding, padding2) ==
    LET o == overlap(self, other, padding, padding2)
        speedx == IF o[1] # 0 THEN (self.speedx + other.speedx) \div 2 ELSE self.speedx
        speedy == IF o[2] # 0 THEN (self.speedy + other.speedy) \div 2 ELSE self.speedy
    IN  IF o # <<0, 0>>
        THEN R2([move(self, o[1] \div 2, o[2] \div 2)
                    EXCEPT !.speedx = speedx, !.speedy = speedy],
                [move(other, (0 - o[1]) \div 2, (0 - o[2]) \div 2)
                    EXCEPT !.speedx = IF o[1] # 0 THEN speedx ELSE @,
                           !.speedy = IF o[2] # 0 THEN speedy ELSE @])
        ELSE R2(self, other)

\* o / 2 and the mean speeds are whole numbers of units
HalvesExact(self, other, padding, padding2) ==
    LET o == overlap(self, other, padding, padding2) IN
    /\ o[1] % 2 = 0 /\ o[2] % 2 = 0
    /\ o[1] # 0 => (self.speedx + other.speedx) % 2 = 0
    /\ o[2] # 0 => (self.speedy + other.speedy) % 2 = 0

\* the positions, sizes, speeds and paddings of the game
MaxPos == 5
Coords == (0 - MaxPos)..MaxPos
\* the box that is only pushed stays within this distance of the origin
MaxOtherPos == 1
Sizes == {<<2, 2>>, <<4, 2>>}
Speeds == {-1, 0, 2}
Paddings == {0, 2}
Paddings2 == {NoArg, 0, 4}

\* a flat box as from_color builds it, then given a speed
FlatBox(x, y, w, h, speedx, speedy) ==
    [from_color(St(EmptyDict, <<>>), x, y, "red", w, h).self
        EXCEPT !.speedx = speedx, !.speedy = speedy]

Did(op, padding, padding2) ==
    last' = [op |-> op, pre |-> boxes, padding |-> padding, padding2 |-> padding2]

Move(b) ==
    \E d \in {<<1, 0>>, <<0, -1>>} :
        /\ boxes' = [boxes EXCEPT ![b] = move(boxes[b], d[1], d[2])]
        /\ boxes'[b].x \in Coords /\ boxes'[b].y \in Coords
        /\ Did("move", 0, 0)
        /\ UNCHANGED <<known_images, surfaces, calls, loopvars, known_text, uivars>>

MoveSpeed(b) ==
    /\ boxes' = [boxes EXCEPT ![b] = move_speed(boxes[b])]
    /\ boxes'[b].x \in Coords /\ boxes'[b].y \in Coords
    /\ Did("move_speed", 0, 0)
    /\ UNCHANGED <<known_images, surfaces, calls, loopvars, known_text, uivars>>

\* an assignment to an attribute of a box: the record holds its name, and not
\* the boxes before it
Assigned(name) == last' = [NoOp EXCEPT !.op = name]

\* box.speed = (speedx, speedy), box.xspeed = value and box.yspeed = value,
\* at any time
SetSpeed(b) ==
    \E speedx \in Speeds, speedy \in Speeds :
        /\ boxes' = [boxes EXCEPT ![b] = set_speed(boxes[b], <<speedx, speedy>>)]
        /\ Assigned("speed")
        /\ UNCHANGED <<known_images, surfaces, calls, loopvars, known_text, uivars>>

SetXSpeed(b) ==
    \E value \in Speeds :
        /\ boxes' = [boxes EXCEPT ![b] = set_xspeed(boxes[b], value)]
        /\ Assigned("xspeed")
        /\ UNCHANGED <<known_images, surfaces, calls, loopvars, known_text, uivars>>

SetYSpeed(b) ==
    \E value \in Speeds :
        /\ boxes' = [boxes EXCEPT ![b] = set_yspeed(boxes[b], value)]
        /\ Assigned("yspeed")
        /\ UNCHANGED <<known_images, surfaces, calls, loopvars, known_text, uivars>>

MoveToStopOverlapping(b, c) ==
    \E padding \in Paddings, padding2 \in Paddings2 :
        LET r == move_to_stop_overlapping(boxes[b], boxes[c], padding, padding2) IN
        /\ boxes' = [boxes EXCEPT ![b] = r.self, ![c] = r.other]
        /\ Did("move_to_stop_overlapping", padding, padding2)
        /\ UNCHANGED <<known_images, surfaces, calls, loopvars, known_text, uivars>>

MoveBothToStopOverlapping(b, c) ==
    \E padding \in Paddings, padding2 \in Paddings2 :
        LET r == move_both_to_stop_overlapping(boxes[b], boxes[c], padding, padding2) IN
        /\ HalvesExact(boxes[b], boxes[c], padding, padding2)
        /\ boxes' = [boxes EXCEPT ![b] = r.self, ![c] = r.other]
        /\ boxes'[b].x \in Coords /\ boxes'[b].y \in Coords
        /\ Abs(boxes'[c].x) <= MaxOtherPos /\ Abs(boxes'[c].y) <= MaxOtherPos
        /\ Did("move_both_to_stop_overlapping", padding, padding2)
        /\ UNCHANGED <<known_images, surfaces, calls, loopvars, known_text, uivars>>

InitGeo ==
    /\ known_images = EmptyDict
    /\ surfaces = <<>>
    /\ calls = <<>>
    /\ last = NoOp
    /\ LoopIdle
    /\ known_text = EmptyDict
    /\ CameraIdle
    /\ \E x \in {-3, 0, 2}, y \in {-2, 0, 3}, sz \in Sizes :
        boxes = [b \in Boxes |->
                    IF b = 1 THEN FlatBox(x, y, sz[1], sz[2], 0, 0)
                    ELSE FlatBox(0, 0, 4, 4, 1, 1)]

\* a game that moves one box, assigns its speed and pushes it off the other
NextGeo ==
    \/ Move(1)
    \/ MoveSpeed(1)
    \/ SetSpeed(1)
    \/ SetXSpeed(1)
    \/ SetYSpeed(1)
    \/ MoveToStopOverlapping(1, 2)

SpecGeo == InitGeo /\ [][NextGeo]_vars

\* a game that assigns the speed of one box and pushes the two boxes apart, the
\* first alone or both
NextBoth ==
    \/ SetSpeed(1)
    \/ SetXSpeed(1)
    \/ SetYSpeed(1)
    \/ MoveToStopOverlapping(1, 2)
    \/ MoveBothToStopOverlapping(1, 2)

SpecBoth == InitGeo /\ [][NextBoth]_vars

(***************************************************************************)
(* Positions: the edge properties of SpriteBox and Camera, move with one   *)
(* argument, the Camera singleton and __setattr__.                         *)
(***************************************************************************)
\* the outcome of a call on a box or a camera: the object and the class of
\* the exception raised, "none" if it returned
P(self, exc) == [self |-> self, exc |-> exc]

\* SpriteBox.move(coords), for a tuple or another sequence; both coords[0]
\* and coords[1] are evaluated before the inner move is called
move_coords(self, coords) ==
    IF Len(coords) > 2 THEN P(self, "ValueError")
    ELSE IF Len(coords) < 2 THEN P(self, "IndexError")
    ELSE P(move(self, coords[1], coords[2]), "none")

\* box.name = value with a right setter that adds the half width
set_edge_plus(self, name, value) ==
    CASE name \in {"x", "left", "right"} ->
            [self EXCEPT !.x = IF name = "x" THEN value ELSE value + self.w \div 2]
      [] name = "y" -> [self EXCEPT !.y = value]
      [] name = "top" -> [self EXCEPT !.y = value + self.h \div 2]
      [] name = "bottom" -> [self EXCEPT !.y = value - self.h \div 2]

\* SpriteBox: box.name = value for the attributes x and y and the properties
\* left, right, top and bottom
set_edge(self, name, value) ==
    CASE name = "x" -> [self EXCEPT !.x = value]
      [] name = "y" -> [self EXCEPT !.y = value]
      [] name = "left" -> [self EXCEPT !.x = value + self.w \div 2]
      [] name = "right" -> [self EXCEPT !.x = value - self.w \div 2]
      [] name = "top" -> [self EXCEPT !.y = value + self.h \div 2]
      [] name = "bottom" -> [self EXCEPT !.y = value - self.h \div 2]

\* SpriteBox: box.name = value for center and the corners, each of which
\* assigns value[0] to one property and value[1] to another
set_point(self, name, value) ==
    CASE name = "center" -> set_edge(set_edge(self, "x", value[1]), "y", value[2])
      [] name = "topleft" -> set_edge(set_edge(self, "left", value[1]), "top", value[2])
      [] name = "topright" -> set_edge(set_edge(self, "right", value[1]), "top", value[2])
      [] name = "bottomleft" ->
            set_edge(set_edge(self, "left", value[1]), "bottom", value[2])
      [] name = "bottomright" ->
            set_edge(set_edge(self, "right", value[1]), "bottom", value[2])

\* the outcome of Camera(width, height): Camera.instance, its key set and the
\* exception raised; id tells the Camera objects apart
camera_init(instance, ks, id, width, height) ==
    IF instance # NoCamera
    THEN [instance |-> instance, keys |-> ks, exc |-> "RuntimeError"]
    ELSE [instance |-> [id |-> id, x |-> 0, y |-> 0, w |-> width, h |-> height],
          keys |-> {}, exc |-> "none"]

\* the Camera getters; the fields x and y of the record are _x and _y
camera_get(self, name) ==
    CASE name = "left" -> self.x
      [] name = "right" -> self.x + self.w
      [] name = "top" -> self.y
      [] name = "bottom" -> self.y + self.h
      [] name = "x" -> self.x + self.w \div 2
      [] name = "y" -> self.y + self.h \div 2

\* Camera: camera.name = value for the properties x, y, left, right, top
\* and bottom
camera_set_edge(self, name, value) ==
    CASE name = "left" -> [self EXCEPT !.x = value]
      [] name = "right" -> [self EXCEPT !.x = value - self.w]
      [] name = "top" -> [self EXCEPT !.y = value]
      [] name = "bottom" -> [self EXCEPT !.y = value - self.h]
      [] name = "x" -> [self EXCEPT !.x = value - self.w \div 2]
      [] name = "y" -> [self EXCEPT !.y = value - self.h \div 2]

\* Camera: camera.name = value for center and the corners
camera_set_point(self, name, value) ==
    CASE name = "center" ->
            camera_set_edge(camera_set_edge(self, "x", value[1]), "y", value[2])
      [] name = "topleft" ->
            camera_set_edge(camera_set_edge(self, "left", value[1]), "top", value[2])
      [] name = "topright" ->
            camera_set_edge(camera_set_edge(self, "right", value[1]), "top", value[2])
      [] name = "bottomleft" ->
            camera_set_edge(camera_set_edge(self, "left", value[1]), "bottom", value[2])
      [] name = "bottomright" ->
            camera_set_edge(camera_set_edge(self, "right", value[1]), "bottom", value[2])

\* Camera.move(x, y): self.x += x, self.y += y
camera_move(self, x, y) ==
    camera_set_point(self, "center",
                     <<camera_get(self, "x") + x, camera_get(self, "y") + y>>)

\* Camera.move(coords): self.x += coords[0] is done before coords[1] is read
camera_move_coords(self, coords) ==
    IF Len(coords) > 2 THEN P(self, "ValueError")
    ELSE IF Len(coords) = 0 THEN P(self, "IndexError")
    ELSE IF Len(coords) = 1
    THEN P(camera_set_edge(self, "x", camera_get(self, "x") + coords[1]), "IndexError")
    ELSE P(camera_move(self, coords[1], coords[2]), "none")

\* the names the two __setattr__ never report
BoxBuiltin == {"x", "y", "speedx", "speedy", "_w", "_h", "_key", "_image", "_color"}
CameraBuiltin == {"_surface", "_x", "_y"}

\* dir(self): the names __init__ assigned on the object and the fields a game
\* added to it (and the attributes of the class, none of which a game here
\* uses as the name of a field)
Dir(initnames, fields) == initnames \cup DOMAIN fields

\* __setattr__, the condition of the notice; it is evaluated after
\* super().__setattr__(name, value), on the dir() that holds the name
notice(name, builtin, dir) == name \notin builtin /\ name \notin dir

(***************************************************************************)
(* A game that runs timer_loop.                                            *)
(***************************************************************************)
\* the environment appends to the event queue at most up to this length
MaxQueue == 2
\* the limits a game passes are None and 0..MaxLimit
MaxLimit == 3
\* the loop is followed for at most this many frames
MaxFrames == 4

Limits == {NoArg} \cup 0..MaxLimit

Rest == <<known_images, surfaces, boxes, calls, last, known_text, uivars>>

\* timer_loop(fps, callback, limit) up to the first test of the loop
TimerLoop ==
    /\ pc = "idle"
    /\ \E lim \in Limits : limit' = lim
    /\ frames' = 0
    /\ timer' = TRUE
    /\ pc' = "wait"
    /\ UNCHANGED <<queue, keys, result, obs, Rest>>

\* the end of timer_loop: set_timer(USEREVENT, 0) and the return
Leave(why) ==
    /\ timer' = FALSE
    /\ result' = loop_returns(limit, frames)
    /\ pc' = "done"
    /\ obs' = [obs EXCEPT !.ended = why,
                          !.last_key = IF why = "escape"
                                       THEN [@ EXCEPT !["K_ESCAPE"] = "down"] ELSE @]
    /\ UNCHANGED <<frames, limit, keys, Rest>>

\* the loop condition is false
LimitReached ==
    /\ pc = "wait"
    /\ ~loop_continues(limit, frames)
    /\ Leave("limit")
    /\ UNCHANGED queue

\* event = pygame.event.wait() returns the oldest event, of this type
Wait(type) ==
    /\ pc = "wait"
    /\ loop_continues(limit, frames)
    /\ queue # <<>>
    /\ Head(queue).type = type

OnQuit ==
    /\ Wait("QUIT")
    /\ queue' = Tail(queue)
    /\ Leave("quit")

OnEscape ==
    /\ Wait("KEYDOWN")
    /\ Head(queue).key = "K_ESCAPE"
    /\ queue' = Tail(queue)
    /\ Leave("escape")

OnKeyDown ==
    /\ Wait("KEYDOWN")
    /\ Head(queue).key # "K_ESCAPE"
    /\ queue' = Tail(queue)
    /\ keys' = keys \cup {Head(queue).key}
    /\ obs' = [obs EXCEPT !.since = IF obs.ncalls = 0 THEN @ ELSE @ \cup {Head(queue).key},
                          !.last_key[Head(queue).key] = "down"]
    /\ UNCHANGED <<timer, pc, frames, limit, result, Rest>>

\* a loop whose key-up branch leaves the key in the set
OnKeyUpKeep ==
    /\ Wait("KEYUP")
    /\ queue' = Tail(queue)
    /\ obs' = [obs EXCEPT !.last_key[Head(queue).key] = "up"]
    /\ UNCHANGED <<timer, pc, frames, limit, keys, result, Rest>>

OnKeyUp ==
    /\ Wait("KEYUP")
    /\ queue' = Tail(queue)
    /\ keys' = IF Head(queue).key \in keys THEN keys \ {Head(queue).key} ELSE keys
    /\ obs' = [obs EXCEPT !.last_key[Head(queue).key] = "up"]
    /\ UNCHANGED <<timer, pc, frames, limit, result, Rest>>

\* a tick: the loop is in the callback when the step ends
OnTick ==
    /\ Wait("USEREVENT")
    /\ frames < MaxFrames
    /\ frames' = frames + 1
    /\ queue' = event_clear(Tail(queue))
    /\ pc' = "callback"
    /\ obs' = [obs EXCEPT !.ncalls = @ + 1,
                          !.left = Ticks(queue'),
                          !.discarded = Len(Tail(queue)) - Len(queue'),
                          !.missed = obs.since \ keys,
                          !.since = {}]
    /\ UNCHANGED <<timer, limit, keys, result, Rest>>

\* the callback calls stop_loop()
StopLoop ==
    /\ pc = "callback"
    /\ ~obs.stopped
    /\ queue' = Append(queue, QuitEvent)
    /\ obs' = [obs EXCEPT !.stopped = TRUE, !.stop_calls = obs.ncalls,
                          !.stop_keys = keys]
    /\ UNCHANGED <<timer, pc, frames, limit, keys, result, Rest>>

\* the callback calls freeze_loop()
FreezeLoop ==
    /\ pc = "callback"
    /\ ~obs.frozen
    /\ timer' = FALSE
    /\ obs' = [obs EXCEPT !.frozen = TRUE, !.freeze_calls = obs.ncalls]
    /\ UNCHANGED <<queue, pc, frames, limit, keys, result, Rest>>

\* the callback returns
Return ==
    /\ pc = "callback"
    /\ pc' = "wait"
    /\ UNCHANGED <<queue, timer, frames, limit, keys, result, obs, Rest>>

\* pygame or the window system appends an event while the loop runs
Post(e) ==
    /\ pc \in {"wait", "callback"}
    /\ Len(queue) < MaxQueue
    /\ queue' = Append(queue, e)
    /\ UNCHANGED <<timer, pc, frames, limit, keys, result, obs, Rest>>

\* the timer set by set_timer(USEREVENT, int(1000 / fps)) fires
TimerFires == timer /\ Post(Tick)

KeyDown == \E k \in Keys : Post(Event("KEYDOWN", k))

KeyUp == Post(Event("KEYUP", "K_a"))

\* the player closes the window
WindowClosed == Post(QuitEvent)

InitLoop ==
    /\ known_images = EmptyDict
    /\ surfaces = <<>>
    /\ boxes = [b \in Boxes |-> NoBox]
    /\ calls = <<>>
    /\ last = NoOp
    /\ LoopIdle
    /\ known_text = EmptyDict
    /\ camera = camera_init(NoCamera, {}, 1, 8, 4).instance
    /\ attrs = [box |-> EmptyDict, camera |-> EmptyDict]
    /\ stderr = <<>>
    /\ game = NoGame
    /\ mouse = NoMouse

NextLoop ==
    \/ TimerLoop
    \/ LimitReached
    \/ OnQuit
    \/ OnEscape
    \/ OnKeyDown
    \/ OnKeyUp
    \/ OnTick
    \/ StopLoop
    \/ FreezeLoop
    \/ Return
    \/ TimerFires
    \/ KeyDown
    \/ KeyUp
    \/ WindowClosed

SpecLoop == InitLoop /\ [][NextLoop]_vars

(***************************************************************************)
(* A game that places a flat SpriteBox and a Camera and adds fields.       *)
(***************************************************************************)
MaxShift == 2

\* the properties a game assigns, the values it assigns to an edge and the
\* points to the center or a corner
EdgeNames == {"x", "y", "left", "right", "top", "bottom"}
PointNames == {"center", "topleft", "topright", "bottomleft", "bottomright"}
Vals == {-1, 0, 2}
Points == {<<-1, 0>>, <<2, -1>>}

\* the sequences a game passes as one argument
CoordSeqs == {<<>>, <<1>>, <<1, -1>>, <<1, -1, 2>>}

\* what the steps of this game leave alone
CamRest == <<known_images, surfaces, calls, known_text,
             queue, timer, pc, frames, limit, result, obs, game, mouse>>

Near(x, y) == Abs(x) <= MaxShift /\ Abs(y) <= MaxShift

\* the box is now new
BoxTo(new) ==
    /\ Near(new.x, new.y)
    /\ boxes' = [boxes EXCEPT ![1] = new]
    /\ UNCHANGED <<camera, keys, attrs, stderr, last, CamRest>>

\* Camera.instance is now new
CameraTo(new) ==
    /\ camera # NoCamera
    /\ Near(camera_get(new, "x"), camera_get(new, "y"))
    /\ camera' = new
    /\ UNCHANGED <<boxes, keys, attrs, stderr, last, CamRest>>

BoxSetEdge == \E name \in EdgeNames, v \in Vals : BoxTo(set_edge(boxes[1], name, v))
BoxSetPoint == \E name \in PointNames, p \in Points : BoxTo(set_point(boxes[1], name, p))
BoxMove == \E p \in Points : BoxTo(move(boxes[1], p[1], p[2]))
BoxMoveCoords == \E coords \in CoordSeqs : BoxTo(move_coords(boxes[1], coords).self)

\* Camera(4, 2), also when there is a Camera; last tells how the call ended
NewCamera ==
    LET r == camera_init(camera, keys, camera.id + 1, 4, 2) IN
    /\ camera' = r.instance
    /\ keys' = r.keys
    /\ last' = [op |-> "Camera", exc |-> r.exc]
    /\ UNCHANGED <<boxes, attrs, stderr, CamRest>>

\* timer_loop handles a key-down: Camera.instance.keys.add(event.key)
KeyHeld ==
    /\ camera # NoCamera
    /\ keys' = keys \cup {"K_a"}
    /\ UNCHANGED <<boxes, camera, attrs, stderr, last, CamRest>>

CameraSetEdge ==
    \E name \in EdgeNames, v \in Vals : CameraTo(camera_set_edge(camera, name, v))
CameraSetPoint ==
    \E name \in PointNames, p \in Points : CameraTo(camera_set_point(camera, name, p))
CameraMove == \E p \in Points : CameraTo(camera_move(camera, p[1], p[2]))
CameraMoveCoords ==
    \E coords \in CoordSeqs : CameraTo(camera_move_coords(camera, coords).self)

\* the fields a game adds, and the values it gives them
FieldNames == {"coins"}
FieldValues == {5, 6}

\* box.name = value for a name that is no attribute of the class and that
\* __init__ did not assign
BoxSetField ==
    \E name \in FieldNames, value \in FieldValues :
        LET stored == Put(attrs.box, name, value) IN
        /\ attrs' = [attrs EXCEPT !.box = stored]
        /\ stderr' = IF notice(name, BoxBuiltin, Dir(BoxBuiltin, stored))
                     THEN Append(stderr, <<"box", name>>) ELSE stderr
        /\ UNCHANGED <<boxes, camera, keys, last, CamRest>>

\* camera.name = value, likewise
CameraSetField ==
    \E name \in FieldNames, value \in FieldValues :
        LET stored == Put(attrs.camera, name, value) IN
        /\ camera # NoCamera
        /\ attrs' = [attrs EXCEPT !.camera = stored]
        /\ stderr' = IF notice(name, CameraBuiltin,
                               Dir(CameraBuiltin \cup {"keys"}, stored))
                     THEN Append(stderr, <<"camera", name>>) ELSE stderr
        /\ UNCHANGED <<boxes, camera, keys, last, CamRest>>

InitCamera ==
    /\ known_images = EmptyDict
    /\ surfaces = <<>>
    /\ calls = <<>>
    /\ last = NoOp
    /\ LoopIdle
    /\ known_text = EmptyDict
    /\ CameraIdle
    /\ boxes = [b \in Boxes |-> IF b = 1 THEN FlatBox(0, 0, 6, 2, 0, 0) ELSE NoBox]

NextCamera ==
    \/ BoxSetEdge \/ BoxSetPoint \/ BoxMove \/ BoxMoveCoords
    \/ NewCamera \/ KeyHeld
    \/ CameraSetEdge \/ CameraSetPoint \/ CameraMove \/ CameraMoveCoords
    \/ BoxSetField \/ CameraSetField

SpecCamera == InitCamera /\ [][NextCamera]_vars

(***************************************************************************)
(* The typing game, sample/keyboard.py.  A text of the game is the         *)
(* sequence of its characters.  What tick draws goes to the screen, which  *)
(* the model leaves out, and through SpriteBox.from_text to the caches.    *)
(***************************************************************************)
\* the frames per second the game runs at; 30 / fps is a whole number here
fps == 1

\* the most keys the player holds down at once
MaxHeld == 1

\* the words of the game that are played, the letters of a word that are
\* kept, from its end, and the frames timer_loop is followed for
MaxWords == 2
MaxLetters == 2
MaxKeyboardFrames == 8

\* the list words of keyboard.py, before it is shuffled
WordList ==
    << <<"a", "l", "o", "n", "g">>, <<"b", "e", "i", "n", "g">>,
       <<"d", "a", "n", "c", "e">>, <<"f", "i", "n", "c", "h">>,
       <<"f", "l", "o", "o", "r">>, <<"f", "r", "o", "w", "n">>,
       <<"g", "r", "a", "z", "e">>, <<"h", "e", "a", "r", "t">>,
       <<"j", "o", "k", "e", "r">>, <<"k", "n", "i", "f", "e">>,
       <<"q", "u", "a", "r", "t">>, <<"r", "i", "v", "e", "t">>,
       <<"s", "c", "r", "u", "b">>, <<"s", "i", "l", "k", "y">>,
       <<"s", "l", "u", "m", "p">>, <<"s", "u", "p", "e", "r">>,
       <<"t", "r", "o", "l", "l">>, <<"v", "a", "l", "o", "r">>,
       <<"x", "y", "l", "e", "m">>, <<"z", "e", "b", "r", "a">> >>

\* the places in the list of the words that are played: troll, floor, valor
Played == <<17, 5, 18>>

\* the last n letters of a word
LastLetters(word, n) == SubSeq(word, Max(Len(word) - n, 0) + 1, Len(word))

\* the words of the game, before they are shuffled
Words == [i \in 1..MaxWords |-> LastLetters(WordList[Played[i]], MaxLetters)]

\* random.shuffle(words): the orders it can leave
Shuffles ==
    {[i \in 1..MaxWords |-> Words[p[i]]] :
        p \in {q \in [1..MaxWords -> 1..MaxWords] : \A i \in 1..MaxWords : \E j \in 1..MaxWords : q[j] = i}}

\* the texts 'Game Over ' and ' '
GameOver == <<"G", "a", "m", "e", " ", "O", "v", "e", "r", " ">>
Space == <<" ">>

\* the letters of all the texts that are typed
Letters ==
    {GameOver[i] : i \in DOMAIN GameOver} \cup
    UNION {{Words[w][i] : i \in DOMAIN Words[w]} : w \in DOMAIN Words}

\* Key(value) for a character: pygame.key.key_code ignores the case
Key(value) ==
    CASE value = " " -> "K_SPACE"
      [] value = "G" -> "K_g"
      [] value = "O" -> "K_o"
      [] OTHER -> "K_" \o value

\* the keys of the keyboard the player uses
GameKeys == {Key(c) : c \in Letters}

\* tick, lines 26-33: all the words have been used
keyboard_reset(g, shuffled) ==
    IF g.word_index >= Len(g.words)
    THEN [g EXCEPT !.words = shuffled, !.word_index = -1,
                   !.keys_remaining = GameOver, !.keys_already_typed = <<>>,
                   !.current_key = "", !.round_score = 0]
    ELSE g

\* tick, lines 35-57: the next round, or the timer of this one
keyboard_round(g) ==
    IF g.current_key = "" /\ g.keys_remaining = <<>>
    THEN LET scored == [g EXCEPT !.word_index = @ + 1,
                                 !.total_score = IF g.keys_already_typed = GameOver
                                                 THEN 0 ELSE @ + g.round_score]
         IN  IF scored.word_index < Len(scored.words)
             THEN [scored EXCEPT
                      !.keys_remaining = scored.words[scored.word_index + 1] \o Space,
                      !.keys_already_typed = <<>>, !.round_score = 100]
             ELSE scored
    ELSE IF g.keys_remaining # Space /\ g.keys_remaining # <<>>
    THEN [g EXCEPT !.round_score = IF @ > 0 THEN @ - 30 \div fps ELSE 0]
    ELSE g

\* tick, lines 100-102: the current key was let go
keyboard_release(g, ks) ==
    IF g.current_key # "" /\ Key(g.current_key) \notin ks
    THEN [g EXCEPT !.keys_already_typed = Append(@, g.current_key), !.current_key = ""]
    ELSE g

\* lines 103-105 without the removal of the letter from keys_remaining
keyboard_take_keep(g, ks) ==
    IF g.current_key = "" /\ g.keys_remaining # <<>> /\ Key(g.keys_remaining[1]) \in ks
    THEN [g EXCEPT !.current_key = g.keys_remaining[1]]
    ELSE g

\* tick, lines 103-105: the key of the next letter is down
keyboard_take(g, ks) ==
    IF g.current_key = "" /\ g.keys_remaining # <<>> /\ Key(g.keys_remaining[1]) \in ks
    THEN [g EXCEPT !.current_key = g.keys_remaining[1],
                   !.keys_remaining = Tail(g.keys_remaining)]
    ELSE g

\* tick() of keyboard.py with ks in Camera.instance.keys
keyboard_tick(g, ks, shuffled) ==
    keyboard_take(keyboard_release(keyboard_round(keyboard_reset(g, shuffled)), ks), ks)

\* the characters of a text put together
RECURSIVE Joined(_)
Joined(chars) == IF chars = <<>> THEN "" ELSE Head(chars) \o Joined(Tail(chars))

\* str.rstrip(): without the blanks at the end
RECURSIVE RStrip(_)
RStrip(chars) ==
    IF chars # <<>> /\ chars[Len(chars)] = " " THEN RStrip(SubSeq(chars, 1, Len(chars) - 1))
    ELSE chars

\* f'{n:0{width}d}' for a whole number of up to four digits
Digits(n) == IF n < 10 THEN 1 ELSE IF n < 100 THEN 2 ELSE IF n < 1000 THEN 3 ELSE 4
RECURSIVE Zeros(_)
Zeros(n) == IF n <= 0 THEN "" ELSE "0" \o Zeros(n - 1)
ZeroPadded(n, width) ==
    IF n < 0 THEN "-" \o Zeros(width - 1 - Digits(0 - n)) \o ToString(0 - n)
    ELSE Zeros(width - Digits(n)) \o ToString(n)

\* one SpriteBox.from_text(x, y, text, fontsize, color) of a tick
Drawn(x, y, text, fontsize, color) ==
    [x |-> x, y |-> y, key |-> <<text, fontsize, color, FALSE, FALSE>>]

\* tick, lines 59-95 of keyboard.py: the texts that are drawn, in order
keyboard_texts(g) ==
    << Drawn(200, 50, "Score: " \o ZeroPadded(g.total_score, 3), 40, "white"),
       Drawn(600, 50, "Timer: " \o ZeroPadded(g.round_score, 2), 40, "white") >>
    \o (IF g.keys_remaining # <<>>
        THEN << Drawn(0, 275, Joined(g.keys_already_typed) \o g.current_key
                              \o Joined(RStrip(g.keys_remaining)), 160, "white") >>
             \o [i \in 1..Len(g.keys_already_typed) |->
                    Drawn(0, 275, g.keys_already_typed[i], 160, "blue")]
             \o (IF g.current_key # "" THEN << Drawn(0, 275, g.current_key, 160, "red") >>
                 ELSE <<>>)
             \o [i \in 1..Len(g.keys_remaining) |->
                    Drawn(0, 275, g.keys_remaining[i], 160, "white")]
        ELSE <<>>)
    \o (IF g.keys_remaining = Space
        THEN << Drawn(400, 475, "Press Space", 72, "white") >>
        ELSE IF g.keys_remaining = <<>>
        THEN << Drawn(400, 475, "Press Space", 72, "red") >>
        ELSE <<>>)

\* the from_text calls of a tick, one after the other, from call i on
RECURSIVE draw_texts(_, _, _)
draw_texts(r, texts, i) ==
    IF i > Len(texts) THEN r
    ELSE draw_texts(from_text(r.st, r.text, texts[i].x, texts[i].y, texts[i].key),
                    texts, i + 1)

\* the caches after a tick has drawn texts
draw(st, text, texts) == draw_texts(WithText(R(st, NoBox), text), texts, 1)

\* what the steps of the typing game leave alone
KeyboardRest == <<boxes, calls, last, queue, timer, pc, limit, result, obs,
                  camera, attrs, stderr, mouse>>
KeyboardCaches == <<known_images, surfaces, known_text, frames>>

\* timer_loop handles a key-down of the player
KeyboardKeyDown ==
    \E k \in GameKeys \ keys :
        /\ Cardinality(keys) < MaxHeld
        /\ keys' = keys \cup {k}
        /\ UNCHANGED <<game, KeyboardCaches, KeyboardRest>>

\* timer_loop handles a key-up
KeyboardKeyUp ==
    \E k \in keys :
        /\ keys' = keys \ {k}
        /\ UNCHANGED <<game, KeyboardCaches, KeyboardRest>>

\* the tick has drawn: the caches are those of r
Drew(r) ==
    /\ known_images' = r.st.known
    /\ surfaces' = r.st.surf
    /\ known_text' = r.text

\* the orders random.shuffle can leave in a tick: it is called when all the
\* words have been used (line 27), and else the words stay as they are
TickShuffles(g) == IF g.word_index >= Len(g.words) THEN Shuffles ELSE {g.words}

\* timer_loop handles a tick: frames += 1 and callback(), which draws the
\* texts once lines 26-57 have run
KeyboardTick ==
    \E shuffled \in TickShuffles(game) :
        /\ frames < MaxKeyboardFrames
        /\ frames' = frames + 1
        /\ game' = keyboard_tick(game, keys, shuffled)
        /\ Drew(draw(Cur, known_text,
                     keyboard_texts(keyboard_round(keyboard_reset(game, shuffled)))))
        /\ UNCHANGED <<keys, KeyboardRest>>

\* the module has run up to timer_loop(fps, tick)
InitKeyboard ==
    /\ known_images = EmptyDict
    /\ surfaces = <<>>
    /\ boxes = [b \in Boxes |-> NoBox]
    /\ calls = <<>>
    /\ last = NoOp
    /\ LoopIdle
    /\ known_text = EmptyDict
    /\ camera = camera_init(NoCamera, {}, 1, 800, 600).instance
    /\ attrs = [box |-> EmptyDict, camera |-> EmptyDict]
    /\ stderr = <<>>
    /\ mouse = NoMouse
    /\ \E shuffled \in Shuffles :
        game = [words |-> shuffled, word_index |-> -1, keys_remaining |-> Space,
                keys_already_typed |-> <<>>, current_key |-> "",
                total_score |-> 0, round_score |-> 0]

NextKeyboard == KeyboardKeyDown \/ KeyboardKeyUp \/ KeyboardTick

SpecKeyboard == InitKeyboard /\ [][NextKeyboard]_vars

(***************************************************************************)
(* The clicking game, sample/mouse.py, in pixels.  The box of the game is  *)
(* boxes[1].  What tick draws goes to the screen, which the model leaves   *)
(* out, and through SpriteBox.from_text to the caches.                     *)
(***************************************************************************)
\* the most clicks that score in one game, and the frames timer_loop is
\* followed for
MaxScore == 2
MaxMouseFrames == 12

\* what random draws for a box: a place, a speed per frame at 60 frames per
\* second, and a color
Draws ==
    [x : {50, 749}, y : {50, 549}, speed : {<<-10, 9>>, <<9, -10>>, <<0, 0>>},
     color : {"red", "blue"}]

\* where the players put the cursor
MousePos == {<<60, 60>>, <<700, 500>>}

\* Camera.mousex and Camera.mousey
camera_mouse(cam, m) == <<m.pos[1] + cam.x, m.pos[2] + cam.y>>

\* SpriteBox.mouseclick
mouseclick(self, cam, m) ==
    contains(self, camera_mouse(cam, m)[1], camera_mouse(cam, m)[2]) /\ m.pressed

\* the draws randomize_box keeps: not too close to the cursor, a new color
randomize_ok(self, cam, m, rnd) ==
    /\ ~(-100 < rnd.x - camera_mouse(cam, m)[1] /\ rnd.x - camera_mouse(cam, m)[1] < 100)
    /\ ~(-100 < rnd.y - camera_mouse(cam, m)[2] /\ rnd.y - camera_mouse(cam, m)[2] < 100)
    /\ rnd.color # self.color

\* randomize_box(), for a draw it keeps
randomize_box(self, rnd) ==
    set_color(St(EmptyDict, <<>>),
              [self EXCEPT !.x = rnd.x, !.y = rnd.y,
                           !.speedx = (rnd.speed[1] * 60) \div fps,
                           !.speedy = (rnd.speed[2] * 60) \div fps],
              rnd.color).self

\* lines 47-50 negating the y speed at the top edge only
bounce_top(self, cam) ==
    [self EXCEPT !.speedy = IF top(self) < 0 THEN -@ ELSE @,
                 !.speedx = IF left(self) < 0 \/ right(self) > cam.w THEN -@ ELSE @]

\* tick, lines 47-50: bounce off the walls
bounce(self, cam) ==
    [self EXCEPT !.speedy = IF top(self) < 0 \/ bottom(self) > cam.h THEN -@ ELSE @,
                 !.speedx = IF left(self) < 0 \/ right(self) > cam.w THEN -@ ELSE @]

\* tick, lines 38-56: the game and the box after them
mouse_play(g, self, cam, m, rnd) ==
    IF g.timer > 0
    THEN IF mouseclick(self, cam, m)
         THEN [game |-> [g EXCEPT !.score = @ + 1],
               box |-> bounce(move_speed(randomize_box(self, rnd)), cam)]
         ELSE [game |-> g, box |-> bounce(move_speed(self), cam)]
    ELSE IF g.timer < -3 * fps /\ m.pressed
    THEN [game |-> [g EXCEPT !.timer = 5 * fps, !.score = 0],
          box |-> randomize_box(self, rnd)]
    ELSE [game |-> g, box |-> self]

\* tick() of mouse.py: the game and the box after it
mouse_tick(g, self, cam, m, rnd) ==
    [mouse_play(g, self, cam, m, rnd) EXCEPT !.game.timer = @ - 1]

\* f'{n / d:.1f}' for n >= 0, where n / d has one decimal place at most, as
\* it has for every d that divides 10
Tenths(n, d) == (10 * n) \div d
OneDecimal(n, d) == ToString(Tenths(n, d) \div 10) \o "." \o ToString(Tenths(n, d) % 10)

\* tick, lines 59-69 of mouse.py: the texts that are drawn, in order; g is
\* the game after lines 38-56
mouse_texts(g) ==
    << Drawn(200, 50, "Score: " \o ToString(g.score), 40, "white"),
       Drawn(600, 50, "Timer: " \o OneDecimal(Max(g.timer, 0), fps), 40, "white") >>
    \o (IF g.timer - 1 <= 0 THEN << Drawn(400, 300, "Game Over", 80, "white") >> ELSE <<>>)
    \o (IF g.timer - 1 < -3 * fps
        THEN << Drawn(400, 400, "Click anywhere to restart", 40, "white") >>
        ELSE <<>>)

\* what the steps of the clicking game leave alone
MouseRest == <<calls, last, queue, timer, pc, limit, keys, result, obs,
               camera, attrs, stderr>>
MouseCaches == <<known_images, surfaces, known_text, frames>>

\* the players move the cursor, press a button, let it go
MouseMove ==
    \E pos \in MousePos \ {mouse.pos} :
        /\ mouse' = [mouse EXCEPT !.pos = pos]
        /\ UNCHANGED <<game, boxes, MouseCaches, MouseRest>>
MouseButton ==
    /\ mouse' = [mouse EXCEPT !.pressed = ~@]
    /\ UNCHANGED <<game, boxes, MouseCaches, MouseRest>>

\* the draws random can make in a tick: randomize_box is called when the box
\* is clicked or the game restarts, and else nothing is drawn
TickDraws(g, self, cam, m) ==
    IF (g.timer > 0 /\ mouseclick(self, cam, m)) \/ (g.timer < -3 * fps /\ m.pressed)
    THEN {rnd \in Draws : randomize_ok(self, cam, m, rnd)}
    ELSE {CHOOSE rnd \in Draws : TRUE}

\* timer_loop handles a tick: frames += 1 and callback()
MouseTick ==
    \E rnd \in TickDraws(game, boxes[1], camera, mouse) :
        /\ frames < MaxMouseFrames
        /\ mouse_play(game, boxes[1], camera, mouse, rnd).game.score <= MaxScore
        /\ frames' = frames + 1
        /\ game' = mouse_tick(game, boxes[1], camera, mouse, rnd).game
        /\ boxes' = [boxes EXCEPT ![1] = mouse_tick(game, boxes[1], camera, mouse, rnd).box]
        /\ Drew(draw(Cur, known_text,
                     mouse_texts(mouse_play(game, boxes[1], camera, mouse, rnd).game)))
        /\ UNCHANGED <<mouse, MouseRest>>

\* the module has run up to timer_loop(fps, tick)
InitMouse ==
    /\ known_images = EmptyDict
    /\ surfaces = <<>>
    /\ calls = <<>>
    /\ last = NoOp
    /\ LoopIdle
    /\ known_text = EmptyDict
    /\ camera = camera_init(NoCamera, {}, 1, 800, 600).instance
    /\ attrs = [box |-> EmptyDict, camera |-> EmptyDict]
    /\ stderr = <<>>
    /\ mouse \in [pos : MousePos, pressed : {FALSE}]
    /\ game = [score |-> 0, timer |-> 30 * fps]
    /\ \E rnd \in Draws :
        boxes = [b \in Boxes |->
                    IF b = 1
                    THEN randomize_box(
                             from_color(St(EmptyDict, <<>>), rnd.x, rnd.y, rnd.color,
                                        100, 100).self, rnd)
                    ELSE NoBox]

NextMouse == MouseMove \/ MouseButton \/ MouseTick

SpecMouse == InitMouse /\ [][NextMouse]_vars

(***************************************************************************)
(* Properties of the cache (checked under SpecCache).                      *)
(***************************************************************************)
IsTransformCall(c) == Len(c.args) = 5

\* C1: any two get_transform calls with equal arguments return the identical
\* image, also when a get_transform call on another key happens between
\* them, and the repeated call adds no entry to _known_images.  Here the
\* first call is the one the game made last; the call between and the repeat
\* are made from the state it left.
CacheDeterminismC1 ==
    \A i \in 1..Len(calls) :
        IsTransformCall(calls[i]) =>
            \A key \in CacheKeys, fl \in BOOLEAN, sz \in CacheSizes, angle \in CacheAngles :
                LET k == calls[i].args
                    between == call_get_transform(Cur, key, fl, sz[1], sz[2], angle)
                    again == call_get_transform(between, k[1], k[2], k[3], k[4], k[5])
                IN  (~between.err /\ ImageKey(key, fl, sz[1], sz[2], angle) # k) =>
                        /\ ~again.err
                        /\ again.ans = calls[i].ans
                        /\ DOMAIN again.known = DOMAIN between.known

\* the last call was get_transform(src, False, 0, 0, 0)
NaturalCall(c) ==
    /\ IsTransformCall(c)
    /\ c.args[2] = FALSE /\ c.args[3] = 0 /\ c.args[4] = 0 /\ c.args[5] = 0

\* C2: after get_transform(src, False, 0, 0, 0) has returned an image of size
\* (W, H), the following call get_transform(src, False, W, H, 0) returns the
\* identical image and makes no smoothscale call.
NaturalSizeAliasC2 ==
    \A i \in 1..Len(calls) :
        NaturalCall(calls[i]) =>
            LET image == calls[i].ans
                following == call_get_transform(Cur, calls[i].args[1], FALSE,
                                                surfaces[image].w, surfaces[image].h, 0)
            IN  /\ ~following.err
                /\ following.ans = image
                /\ following.nscale = 0

\* the game has just called get_transform(url, False, 0, 0, 0), and the image
\* it got is cached under the image's own size
WitnessC2 ==
    /\ Len(calls) = 1
    /\ NaturalCall(calls[1])
    /\ calls[1].args[1] = "http://h/a.png"
    /\ ImageKey("http://h/a.png", FALSE, 4, 2, 0) \in DOMAIN known_images

(***************************************************************************)
(* Properties of SpriteBox (checked under SpecBox).                        *)
(***************************************************************************)
Keyed(self) == self.key # NoneKey /\ self.key # UnsetKey /\ self.key # NoBox.key

\* C3: get_transform called with two angles that are congruent modulo 360
\* returns the identical image both times and keeps one entry.
GetTransformCongruentC3 ==
    \A b \in Boxes :
        Keyed(boxes[b]) =>
            LET k == boxes[b].key
                one == call_get_transform(Cur, k[1], k[2], k[3], k[4], k[5])
                two == call_get_transform(one, k[1], k[2], k[3], k[4], k[5] - 360)
            IN  two.ans = one.ans /\ DOMAIN two.known = DOMAIN one.known

\* C4: rotate(d) sets the key angle to (old angle + d) mod 360, in [0, 360);
\* rotate(360), and rotate(d) followed by rotate(-d), leave the key, the
\* image object and the width and height as they were.
RotateRoundTripC4 ==
    \A b \in Boxes :
        Keyed(boxes[b]) =>
            \A d \in {-120, 120, 360, 480} :
                LET self == boxes[b]
                    there == rotate(Cur, self, Frac(d))
                    back == rotate(there.st, there.self, Frac(0 - d))
                    whole == rotate(Cur, self, Frac(360))
                IN  /\ there.self.key[5] = (self.key[5] + d) % 360
                    /\ there.self.key[5] \in 0..359
                    /\ whole.self = self
                    /\ back.self = self

\* an attribute that was assigned a value other than None
IsSetKey(self) == self.key # NoneKey /\ self.key # UnsetKey
IsSetImage(self) == self.image # NoneImage /\ self.image # UnsetImage
IsSetColor(self) == self.color # NoneColor /\ self.color # UnsetColor

\* C5: every SpriteBox has exactly one representation: cache-backed (_key and
\* _image set, _color unset) or flat (_color set, _key and _image unset).
OneRepresentationC5 ==
    \A b \in Boxes :
        boxes[b] # NoBox =>
            \/ IsSetKey(boxes[b]) /\ IsSetImage(boxes[b]) /\ ~IsSetColor(boxes[b])
            \/ IsSetColor(boxes[b]) /\ ~IsSetKey(boxes[b]) /\ ~IsSetImage(boxes[b])

\* n is the fraction q rounded to the nearest integer
Nearest(n, q) == 2 * Abs(n * q[2] - q[1]) <= q[2]

\* C6: after scale_by(f) on a cache-backed box with key size (w, h) the key
\* size is (w * f, h * f) rounded to the nearest integer, for every f > 0,
\* and source, flip, angle, position and speed are unchanged; on a flat box
\* the width and height are multiplied by f.
ScaleByC6 ==
    \A b \in Boxes, f \in Factors :
        LET self == [boxes[b] EXCEPT !.speedx = 1, !.speedy = -1]
            r == scale_by(Cur, self, f)
        IN  /\ Keyed(self) =>
                /\ ~r.st.err
                /\ Nearest(r.self.key[3], <<self.key[3] * f[1], f[2]>>)
                /\ Nearest(r.self.key[4], <<self.key[4] * f[1], f[2]>>)
                /\ r.self.key[1] = self.key[1] /\ r.self.key[2] = self.key[2]
                /\ r.self.key[5] = self.key[5]
                /\ r.self.x = self.x /\ r.self.y = self.y
                /\ r.self.speedx = self.speedx /\ r.self.speedy = self.speedy
            /\ (self.key = NoneKey /\ self.w # UnsetNum /\ Exact(self, f)) =>
                /\ r.self.w * f[2] = self.w * f[1]
                /\ r.self.h * f[2] = self.h * f[1]

(***************************************************************************)
(* Properties of the collision geometry (checked under SpecGeo).           *)
(***************************************************************************)
\* the four edge distances of the reference and their maximum
RefL(self, other, px) == (other.x - other.w \div 2) - (self.x + self.w \div 2) - px
RefR(self, other, px) == (self.x - self.w \div 2) - (other.x + other.w \div 2) - px
RefT(self, other, py) == (other.y - other.h \div 2) - (self.y + self.h \div 2) - py
RefB(self, other, py) == (self.y - self.h \div 2) - (other.y + other.h \div 2) - py
RefM(self, other, px, py) ==
    LET ds == {RefL(self, other, px), RefR(self, other, px),
               RefT(self, other, py), RefB(self, other, py)}
    IN  CHOOSE m \in ds : \A d \in ds : d <= m

\* the reference of C7: (0, 0) when m >= 0, else the push of the first of
\* l, r, t, b that equals m
RefOverlap(self, other, px, py) ==
    LET dist == <<RefL(self, other, px), RefR(self, other, px),
                  RefT(self, other, py), RefB(self, other, py)>>
        push == <<<<dist[1], 0>>, <<0 - dist[2], 0>>, <<0, dist[3]>>, <<0, 0 - dist[4]>>>>
        m == RefM(self, other, px, py)
        i == CHOOSE j \in 1..4 : dist[j] = m /\ \A n \in 1..(j - 1) : dist[n] # m
    IN  IF m >= 0 THEN <<0, 0>> ELSE push[i]

\* C7: for all positions, sizes and paddings overlap(other, px, py) equals the
\* reference.
OverlapReferenceC7 ==
    \A b \in Boxes, c \in Boxes, px \in Paddings, py \in Paddings2 :
        b # c =>
            overlap(boxes[b], boxes[c], px, py)
                = RefOverlap(boxes[b], boxes[c], px, PadY(px, py))

\* the boxes overlap and the smallest push is the same to the left and up
WitnessC7 ==
    \E px \in Paddings, py \in Paddings2 :
        /\ last.op = "move"
        /\ RefM(boxes[1], boxes[2], px, PadY(px, py)) < 0
        /\ RefL(boxes[1], boxes[2], px) = RefM(boxes[1], boxes[2], px, PadY(px, py))
        /\ RefT(boxes[1], boxes[2], PadY(px, py)) = RefM(boxes[1], boxes[2], px, PadY(px, py))
        /\ overlap(boxes[1], boxes[2], px, py) = <<RefL(boxes[1], boxes[2], px), 0>>

\* C8, as claimed: overlap returns [0, 0] if and only if touches returns
\* False, also when the padded edges exactly meet.
OverlapIffNotTouchesC8 ==
    \A px \in Paddings, py \in Paddings2 :
        (overlap(boxes[1], boxes[2], px, py) = <<0, 0>>)
            <=> ~touches(boxes[1], boxes[2], px, py)

\* C8, amended: overlap returns [0, 0] exactly when m >= 0 and touches
\* returns False exactly when m > 0; so touches False implies overlap [0, 0],
\* and the two differ exactly when the padded edges meet (m = 0), where
\* overlap is [0, 0] and touches is True.
OverlapTouchesBoundaryC8 ==
    \A px \in Paddings, py \in Paddings2 :
        LET m == RefM(boxes[1], boxes[2], px, PadY(px, py))
            o == overlap(boxes[1], boxes[2], px, py)
            t == touches(boxes[1], boxes[2], px, py)
        IN  /\ (o = <<0, 0>>) <=> (m >= 0)
            /\ ~t <=> (m > 0)
            /\ ~t => o = <<0, 0>>
            /\ (o = <<0, 0>> /\ t) <=> (m = 0)

\* the padded edges of the two boxes exactly meet
WitnessC8 ==
    \E px \in Paddings, py \in Paddings2 :
        /\ last.op = "move_speed"
        /\ RefM(boxes[1], boxes[2], px, PadY(px, py)) = 0
        /\ touches(boxes[1], boxes[2], px, py)
        /\ overlap(boxes[1], boxes[2], px, py) = <<0, 0>>

Stopped == last.op = "move_to_stop_overlapping"

\* C9: after b1.move_to_stop_overlapping(b2, p, p2) the overlap of b1 and b2
\* is [0, 0], and a second identical call changes neither position nor speed.
StopOverlappingIdempotentC9 ==
    Stopped =>
        /\ overlap(boxes[1], boxes[2], last.padding, last.padding2) = <<0, 0>>
        /\ move_to_stop_overlapping(boxes[1], boxes[2], last.padding, last.padding2)
               = R2(boxes[1], boxes[2])

\* move_to_stop_overlapping has just moved a box that overlapped the other
WitnessC9 ==
    /\ Stopped
    /\ overlap(last.pre[1], last.pre[2], last.padding, last.padding2) # <<0, 0>>
    /\ boxes[1] # last.pre[1]

\* the push a and the velocity v have opposite signs
Opposite(a, v) == (a < 0 /\ v > 0) \/ (a > 0 /\ v < 0)

\* C10: move_to_stop_overlapping translates self by the overlap, leaves the
\* other box unchanged, zeroes exactly the velocity components of self whose
\* sign is opposite to the push on their axis, and changes nothing when the
\* overlap is (0, 0).
StopOverlappingFrameC10 ==
    Stopped =>
        LET self == last.pre[1]
            other == last.pre[2]
            o == overlap(self, other, last.padding, last.padding2)
        IN  /\ boxes[2] = other
            /\ boxes[1].x = self.x + o[1] /\ boxes[1].y = self.y + o[2]
            /\ boxes[1].speedx = IF Opposite(o[1], self.speedx) THEN 0 ELSE self.speedx
            /\ boxes[1].speedy = IF Opposite(o[2], self.speedy) THEN 0 ELSE self.speedy
            /\ boxes[1].w = self.w /\ boxes[1].h = self.h
            /\ boxes[1].color = self.color /\ boxes[1].key = self.key
            /\ boxes[1].image = self.image
            /\ o = <<0, 0>> => boxes = last.pre

\* a box moving against the push on one axis and moving on the other axis too
\* was pushed: the first speed is now zero, the second is kept
WitnessC10 ==
    /\ Stopped
    /\ LET o == overlap(last.pre[1], last.pre[2], last.padding, last.padding2) IN
        /\ o[1] # 0
        /\ Opposite(o[1], last.pre[1].speedx)
        /\ boxes[1].speedx = 0
        /\ last.pre[1].speedy # 0
        /\ boxes[1].speedy = last.pre[1].speedy

\* C11: after b1.move_to_stop_overlapping(b2) has moved b1 (the overlap was
\* not [0, 0]), the speed of b1 is 0 on both axes.
StopOverlappingStopsC11 ==
    (Stopped /\ overlap(last.pre[1], last.pre[2], last.padding, last.padding2) # <<0, 0>>) =>
        boxes[1].speedx = 0 /\ boxes[1].speedy = 0

\* the last call pushed both boxes (C12 is checked under SpecBoth)
StoppedBoth == last.op = "move_both_to_stop_overlapping"

\* C12: with o the overlap before b1.move_both_to_stop_overlapping(b2, p, p2):
\* when o is not (0, 0), b1 has moved by o / 2 and b2 by -o / 2 and their
\* overlap is (0, 0); on each axis where o is not zero both speeds are the
\* mean of the two speeds before, on the other axis both are unchanged; when
\* o is (0, 0) nothing has changed.
StopBothOverlappingC12 ==
    StoppedBoth =>
        LET self == last.pre[1]
            other == last.pre[2]
            o == overlap(self, other, last.padding, last.padding2)
        IN  /\ o = <<0, 0>> => boxes = last.pre
            /\ o # <<0, 0>> =>
                /\ 2 * (boxes[1].x - self.x) = o[1] /\ 2 * (boxes[1].y - self.y) = o[2]
                /\ 2 * (boxes[2].x - other.x) = 0 - o[1]
                /\ 2 * (boxes[2].y - other.y) = 0 - o[2]
                /\ overlap(boxes[1], boxes[2], last.padding, last.padding2) = <<0, 0>>
                /\ boxes[1].w = self.w /\ boxes[1].h = self.h
                /\ boxes[2].w = other.w /\ boxes[2].h = other.h
                /\ IF o[1] # 0
                   THEN /\ 2 * boxes[1].speedx = self.speedx + other.speedx
                        /\ boxes[2].speedx = boxes[1].speedx
                   ELSE boxes[1].speedx = self.speedx /\ boxes[2].speedx = other.speedx
                /\ IF o[2] # 0
                   THEN /\ 2 * boxes[1].speedy = self.speedy + other.speedy
                        /\ boxes[2].speedy = boxes[1].speedy
                   ELSE boxes[1].speedy = self.speedy /\ boxes[2].speedy = other.speedy

\* both boxes were pushed apart along x; their speeds along x were different
\* and are now the mean, their speeds along y were different and are kept
WitnessC12 ==
    /\ StoppedBoth
    /\ overlap(last.pre[1], last.pre[2], last.padding, last.padding2)[1] # 0
    /\ last.pre[1].speedx # last.pre[2].speedx
    /\ boxes[1].speedx = boxes[2].speedx
    /\ last.pre[1].speedy # last.pre[2].speedy
    /\ boxes[1].speedy = last.pre[1].speedy
    /\ boxes[2].speedy = last.pre[2].speedy

\* the edge whose distance is dist is the one causing the overlap: no other
\* edge distance is larger
EdgeIsCause(self, other, px, py, dist) == dist = RefM(self, other, px, py)

\* C13: bottom_touches returns True only if touches returns True and the
\* bottom edge of b1 is the edge causing the overlap; the same for
\* top_touches, left_touches and right_touches with their edge.
DirectionalTouchesC13 ==
    \A px \in Paddings, py \in Paddings2 :
        LET self == boxes[1]
            other == boxes[2]
            t == touches(self, other, px, py)
            qy == PadY(px, py)
        IN  /\ bottom_touches(self, other, px, py) =>
                t /\ EdgeIsCause(self, other, px, qy, RefT(self, other, qy))
            /\ top_touches(self, other, px, py) =>
                t /\ EdgeIsCause(self, other, px, qy, RefB(self, other, qy))
            /\ left_touches(self, other, px, py) =>
                t /\ EdgeIsCause(self, other, px, qy, RefR(self, other, px))
            /\ right_touches(self, other, px, py) =>
                t /\ EdgeIsCause(self, other, px, qy, RefL(self, other, px))

\* the points the game asks about, relative to the centre of the box: inside
\* it, on its edges and corners, and outside it
Offsets == (0 - 3)..3

\* C14: contains(px, py) is True exactly when |px - x| * 2 < width and
\* |py - y| * 2 < height, that is when the point lies strictly between the
\* edges, so a point on an edge or a corner is not contained; contains((px,
\* py)) returns the same.
ContainsC14 ==
    \A dx \in Offsets, dy \in Offsets :
        LET self == boxes[1]
            px == self.x + dx
            py == self.y + dy
            inside == /\ left(self) < px /\ px < right(self)
                      /\ top(self) < py /\ py < bottom(self)
            onedge == \/ px \in {left(self), right(self)}
                      \/ py \in {top(self), bottom(self)}
        IN  /\ contains(self, px, py) <=> inside
            /\ contains(self, px, py) <=>
                  (Abs(px - self.x) * 2 < self.w /\ Abs(py - self.y) * 2 < self.h)
            /\ onedge => ~contains(self, px, py)
            /\ contains_coords(self, <<px, py>>) =
                [err |-> FALSE, exc |-> "none", ans |-> contains(self, px, py)]

\* a box that was moved contains its centre, but neither the point of its
\* right edge level with the centre nor its top left corner
WitnessC14 ==
    /\ last.op = "move"
    /\ contains(boxes[1], boxes[1].x, boxes[1].y)
    /\ ~contains(boxes[1], right(boxes[1]), boxes[1].y)
    /\ ~contains_coords(boxes[1], <<left(boxes[1]), top(boxes[1])>>).ans

(***************************************************************************)
(* Properties of timer_loop (checked under SpecLoop).                      *)
(***************************************************************************)
\* C15: each tick the loop processes first discards every other pending
\* tick and then invokes the callback exactly once: no tick is pending when
\* the callback is invoked, and the callback has been invoked once per
\* processed tick.  Whatever number of ticks were posted while a callback
\* ran, they lead to at most one further invocation: once the callback has
\* stopped the timer with freeze_loop(), so that no tick is posted after it,
\* the callback is invoked at most once more.
TickHandlingC15 ==
    /\ obs.left = 0
    /\ obs.ncalls = frames
    /\ obs.frozen => obs.ncalls <= obs.freeze_calls + 1

\* several ticks were pending after the callback stopped the timer, and the
\* one further invocation discarded the others
WitnessC15 ==
    /\ obs.frozen
    /\ obs.ncalls = obs.freeze_calls + 1
    /\ obs.discarded >= 1

\* C16: once the callback has called stop_loop(), timer_loop exits without
\* invoking the callback again and without applying a further key event to
\* the key set, whatever events are queued.
StopLoopExitsC16 ==
    obs.stopped => obs.ncalls = obs.stop_calls /\ keys = obs.stop_keys

\* C17: once the callback has called freeze_loop(), the callback is never
\* invoked again, whatever ticks had already been posted.
FreezeLoopC17 ==
    obs.frozen => obs.ncalls = obs.freeze_calls

\* C18: with a limit (any integer >= 0) the callback is invoked at most limit
\* times, and timer_loop returns True exactly when a limit was given and the
\* loop ended by reaching it, False when a Quit or Escape ended it.
LimitC18 ==
    /\ limit # NoArg => obs.ncalls <= limit
    /\ pc = "done" => (result <=> (limit # NoArg /\ obs.ended = "limit"))

\* C19: a key whose key-down was handled since the last tick is in the key
\* set the callback is invoked with at the next tick, also when its key-up
\* came before that tick.
KeysSinceTickC19 ==
    obs.missed = {}

(***************************************************************************)
(* Loading by reference (checked under SpecCache).                         *)
(***************************************************************************)
IsLoadCall(c) == Len(c.args) = 2

\* C20: after load_filename_or_url(ref) has returned an image of size (W, H),
\* for a local path or a URL, _known_images maps (ref, False, 0, 0, 0) and
\* (ref, False, W, H, 0) to that image, and a following
\* load_filename_or_url(ref) or SpriteBox.from_image(x, y, ref) has the
\* identical image and decodes no file: it creates no Surface.
LoadCachesRefC20 ==
    \A i \in 1..Len(calls) :
        IsLoadCall(calls[i]) =>
            LET ref == calls[i].args[2]
                image == calls[i].ans
                plain == ImageKey(ref, FALSE, 0, 0, 0)
                sized == ImageKey(ref, FALSE, surfaces[image].w, surfaces[image].h, 0)
                again == load_filename_or_url(Cur, ref)
                box == from_image(Cur, 0, 0, <<"ref", ref>>)
            IN  /\ plain \in DOMAIN known_images /\ known_images[plain] = image
                /\ sized \in DOMAIN known_images /\ known_images[sized] = image
                /\ ~again.err /\ again.ans = image /\ again.surf = surfaces
                /\ ~box.st.err /\ box.self.image = image /\ box.st.surf = surfaces

(***************************************************************************)
(* Rendered text (checked under SpecCache).                                *)
(***************************************************************************)
IsRenderCall(c) == Len(c.args) = 6

\* C21: render_text with an equal (text, fontsize, color, bold, italic)
\* renders once and returns the identical image every time: the call the
\* game made last returned the image _known_text holds, and a repeated call
\* returns it again, creates no Surface and changes no cache.  From the first
\* call on the image is in _known_images under its identity key and under
\* the alias with its own size, and get_transform on the identity key, with
\* any flip, size and angle, does not raise, so it never loads the key as a
\* file or URL.
RenderOnceC21 ==
    /\ \A i \in 1..Len(calls) :
        IsRenderCall(calls[i]) => calls[i].ans = known_text[SubSeq(calls[i].args, 2, 6)]
    /\ \A key \in DOMAIN known_text :
        LET image == known_text[key]
            sid == Sid(image)
            again == render_text(Cur, known_text, key)
            plain == ImageKey(sid, FALSE, 0, 0, 0)
            sized == ImageKey(sid, FALSE, surfaces[image].w, surfaces[image].h, 0)
        IN  /\ again.st.ans = image /\ again.st.surf = surfaces
            /\ again.st.known = known_images /\ again.text = known_text
            /\ plain \in DOMAIN known_images /\ known_images[plain] = image
            /\ sized \in DOMAIN known_images /\ known_images[sized] = image
            /\ \A fl \in BOOLEAN, sz \in CacheSizes, angle \in CacheAngles :
                ~get_transform(Cur, sid, fl, sz[1], sz[2], angle).err

\* the game has rendered a text again, after a rotated or scaled transform
\* of the rendered image was cached
WitnessC21 ==
    /\ Len(calls) = 1
    /\ IsRenderCall(calls[1])
    /\ calls[1].added = 0
    /\ \E k \in DOMAIN known_images :
        k[1] = Sid(calls[1].ans) /\ k[5] # 0

(***************************************************************************)
(* Failure to resolve a source (checked under SpecBox).                    *)
(***************************************************************************)
\* the operations that re-key a box, with a source that may not resolve
Rekeyings(self) ==
    {set_image(Cur, self, Str(ref)) : ref \in BadRefs}
        \cup {scale_by(Cur, self, f) : f \in {g \in Factors : Exact(self, g)}}
        \cup {rotate(Cur, self, Frac(d)) : d \in {120, 360}}
        \cup {flip(Cur, self), full_size(Cur, self)}

\* C22: get_transform on a key whose source cannot be resolved (a missing
\* file or failed download, an undecodable file) raises the image-load error,
\* the ValueError of load_filename_or_url, and leaves _known_images and the
\* heap as they were, for every flip, size and angle;
\* image = such a source raises on every box; and a re-keying operation
\* (image=, scale_by, flip, rotate, full_size) that raises leaves the box and
\* _known_images as they were.
FailureLeavesNoTraceC22 ==
    /\ \A ref \in BadRefs, fl \in BOOLEAN, sz \in CacheSizes, angle \in CacheAngles :
        LET r == get_transform(Cur, ref, fl, sz[1], sz[2], angle)
        IN  /\ r.err /\ r.exc = "ValueError"
            /\ r.known = known_images /\ r.surf = surfaces
    /\ \A b \in Boxes :
        boxes[b] # NoBox =>
            /\ \A ref \in BadRefs : set_image(Cur, boxes[b], Str(ref)).st.err
            /\ \A r \in Rekeyings(boxes[b]) :
                r.st.err => r.self = boxes[b] /\ r.st.known = known_images

(***************************************************************************)
(* The setters of a SpriteBox (checked under SpecBox).                     *)
(***************************************************************************)
\* the sources a game assigns: files, a URL, and the Surface objects it holds
GoodRefs == {Str("a.png"), Str("http://h/a.png")} \cup {Surf(s) : s \in 1..Len(surfaces)}

\* the key string of a source, and its natural size
KeyOf(ref) == IF IsSurface(ref) THEN Sid(ref[2]) ELSE ref[2]
NaturalOf(ref) ==
    IF IsSurface(ref) THEN <<surfaces[ref[2]].w, surfaces[ref[2]].h>>
    ELSE FileSize(Basename(ref[2]))

CacheBacked(self) == Len(self.key) = 5
Flat(self) == self.key = NoneKey /\ self.w # UnsetNum

SamePlace(a, b) ==
    a.x = b.x /\ a.y = b.y /\ a.speedx = b.speedx /\ a.speedy = b.speedy

\* C23: image = ref on a cache-backed box gives the key (ref, flip, w, h,
\* angle) with the flip, key width, key height and angle of the key before;
\* on a flat box it gives the key (ref, False, W, H, 0) with (W, H) the
\* natural size of the new image; in both cases the assignment succeeds,
\* position and speed are unchanged and the color is None.
SetImageRekeysC23 ==
    \A b \in Boxes, ref \in GoodRefs :
        LET self == boxes[b]
            r == set_image(Cur, self, ref)
        IN  (CacheBacked(self) \/ Flat(self)) =>
                /\ ~r.st.err
                /\ SamePlace(r.self, self)
                /\ r.self.color = NoneColor
                /\ CacheBacked(self) =>
                    r.self.key = ImageKey(KeyOf(ref), self.key[2], self.key[3],
                                          self.key[4], self.key[5])
                /\ Flat(self) =>
                    r.self.key = ImageKey(KeyOf(ref), FALSE, NaturalOf(ref)[1],
                                          NaturalOf(ref)[2], 0)

\* a box that image = 'a.png' has keyed by the file name is flipped
WitnessC23 ==
    /\ CacheBacked(boxes[1])
    /\ boxes[1].key[1] = "a.png"
    /\ boxes[1].key[2]
    /\ boxes[1].image = known_images[boxes[1].key]

\* the natural size of the source a key names: of the Surface with that
\* identity, or of the file
SourceSize(k) ==
    IF \E s \in 1..Len(surfaces) : Sid(s) = k
    THEN LET s == CHOOSE s \in 1..Len(surfaces) : Sid(s) = k
         IN  <<surfaces[s].w, surfaces[s].h>>
    ELSE FileSize(Basename(k))

\* full_size() twice: r is the outcome of the first
FullSizeAgain(r) == full_size(r.st, r.self)

\* C24: full_size() on a cache-backed box, in whatever state the earlier
\* scale_by, width=, height= and size= calls left it, succeeds and gives a
\* key with the natural, unrotated width and height of the source and with
\* the source, flip and angle of the key before; position and speed are
\* unchanged; a second full_size() changes neither the box nor the cache.
FullSizeC24 ==
    \A b \in Boxes :
        LET self == boxes[b]
            r == full_size(Cur, self)
        IN  CacheBacked(self) =>
                /\ ~r.st.err
                /\ r.self.key = ImageKey(self.key[1], self.key[2],
                                         SourceSize(self.key[1])[1],
                                         SourceSize(self.key[1])[2], self.key[5])
                /\ SamePlace(r.self, self)
                /\ FullSizeAgain(r).self = r.self
                /\ FullSizeAgain(r).st.known = r.st.known

\* a rotated box has its natural size again after it was scaled: the cache
\* holds an image of its source at another size
WitnessC24 ==
    /\ CacheBacked(boxes[1])
    /\ boxes[1].key[5] # 0
    /\ <<boxes[1].key[3], boxes[1].key[4]>> = SourceSize(boxes[1].key[1])
    /\ \E k \in DOMAIN known_images :
        k[1] = boxes[1].key[1] /\ k[3] # 0 /\ k[3] # boxes[1].key[3]

\* C25: color = c on any SpriteBox (cache-backed, flat, or built without
\* image and color) sets the key and the image to None and the color to c,
\* and leaves width, height, position, speed, _known_images, the Surface
\* objects and _known_text as they were; it does not raise.
SetColorC25 ==
    \A b \in Boxes, c \in {"blue", "red"} :
        LET self == boxes[b]
            r == set_color(Cur, self, c)
        IN  self # NoBox =>
                /\ ~r.st.err
                /\ r.self.key = NoneKey /\ r.self.image = NoneImage /\ r.self.color = c
                /\ r.self.w = self.w /\ r.self.h = self.h
                /\ SamePlace(r.self, self)
                /\ r.st.known = known_images /\ r.st.surf = surfaces

\* color = 'blue' was assigned to a box showing a rotated image: the box is
\* flat and has the width and height of that image
WitnessC25 ==
    /\ boxes[1].color = "blue"
    /\ boxes[1].key = NoneKey
    /\ boxes[1].image = NoneImage
    /\ boxes[1].h = 6

\* what a box shows after an operation: its size and the pixels of its image
Shown(r) ==
    [w |-> r.self.w, h |-> r.self.h, color |-> r.self.color,
     image |-> IF r.self.image > 0 THEN r.st.surf[r.self.image] ELSE <<>>]

\* the same operation gives the same result on the copy as on the original
SameLater(st, a, b) ==
    /\ Shown(flip(st, a)) = Shown(flip(st, b))
    /\ Shown(rotate(st, a, Frac(120))) = Shown(rotate(st, b, Frac(120)))
    /\ Shown(scale_by(st, a, <<2, 1>>)) = Shown(scale_by(st, b, <<2, 1>>))
    /\ Shown(full_size(st, a)) = Shown(full_size(st, b))

\* C26: copy_at(x, y) of a cache-backed or flat box succeeds and returns a
\* box at (x, y) with the same image object or color, the same width and
\* height and the same speed as the original, on which a later flip, rotate,
\* scale_by or full_size gives the same result as on the original.
CopyLikeOriginalC26 ==
    \A b \in Boxes :
        LET self == boxes[b]
            r == copy_at(Cur, self, 1, 1)
        IN  (CacheBacked(self) \/ Flat(self)) =>
                /\ ~r.st.err
                /\ r.self.x = 1 /\ r.self.y = 1
                /\ r.self.image = self.image /\ r.self.color = self.color
                /\ r.self.w = self.w /\ r.self.h = self.h
                /\ r.self.speedx = self.speedx /\ r.self.speedy = self.speedy
                /\ SameLater(r.st, r.self, self)

(***************************************************************************)
(* The Camera singleton, added fields and positions (checked under         *)
(* SpecCamera).                                                            *)
(***************************************************************************)
\* C27: once a Camera has been constructed, another Camera(width, height)
\* fails with the invalid-argument error, which is the ValueError this
\* library raises for a missing dimension and for a coordinate sequence of
\* wrong arity, and leaves Camera.instance, its offset and its key set as
\* they were; at most one Camera is ever registered.
SecondCameraC27 ==
    /\ camera.id <= 1
    /\ camera # NoCamera =>
        LET r == camera_init(camera, keys, camera.id + 1, 4, 2)
        IN  /\ r.exc = "ValueError"
            /\ r.instance = camera
            /\ r.keys = keys
    /\ last.op = "Camera" => last.exc \in {"none", "ValueError"}

\* what the code does: once a Camera has been constructed, another
\* Camera(width, height) raises RuntimeError, which is no ValueError, and
\* leaves Camera.instance, its offset and its key set as they were; at most
\* one Camera is ever registered
SecondCameraRuntimeError ==
    /\ camera.id <= 1
    /\ camera # NoCamera =>
        LET r == camera_init(camera, keys, camera.id + 1, 4, 2)
        IN  /\ r.exc = "RuntimeError"
            /\ r.instance = camera
            /\ r.keys = keys
    /\ last.op = "Camera" => last.exc \in {"none", "RuntimeError"}
    /\ last.op = "Camera" => camera.id = 1

\* a second Camera was refused while the first was moved and held a key
SecondCameraRefused ==
    /\ last.op = "Camera" /\ last.exc = "RuntimeError"
    /\ camera.id = 1 /\ camera.x # 0 /\ keys # {}

\* the lines written to sys.stderr about a field of the box or the camera
Notices(who, name) == {i \in 1..Len(stderr) : stderr[i] = <<who, name>>}

\* C28: every field a game has added to the SpriteBox or to the Camera holds
\* the value assigned last and was reported by exactly one notice, however
\* often it was assigned; nothing else was written.
OneNoticeC28 ==
    /\ \A name \in DOMAIN attrs.box : Cardinality(Notices("box", name)) = 1
    /\ \A name \in DOMAIN attrs.camera : Cardinality(Notices("camera", name)) = 1
    /\ Len(stderr) = Cardinality(DOMAIN attrs.box) + Cardinality(DOMAIN attrs.camera)

\* C29: SpriteBox.move, SpriteBox.contains and Camera.move with one sequence
\* of 0, 1 or 3 elements raise ValueError and leave the position of the box
\* or the offset of the camera as it was.
WrongArityC29 ==
    \A coords \in CoordSeqs :
        Len(coords) # 2 =>
            /\ move_coords(boxes[1], coords) = P(boxes[1], "ValueError")
            /\ contains_coords(boxes[1], coords).exc = "ValueError"
            /\ camera # NoCamera =>
                camera_move_coords(camera, coords) = P(camera, "ValueError")

\* the position of a SpriteBox as its getters report it
BoxView(self) ==
    [left |-> left(self), right |-> right(self), top |-> top(self),
     bottom |-> bottom(self), x |-> self.x, y |-> self.y,
     width |-> self.w, height |-> self.h]

\* the position of the Camera as its getters report it
CameraView(self) ==
    [left |-> camera_get(self, "left"), right |-> camera_get(self, "right"),
     top |-> camera_get(self, "top"), bottom |-> camera_get(self, "bottom"),
     x |-> camera_get(self, "x"), y |-> camera_get(self, "y"),
     width |-> self.w, height |-> self.h]

\* view b is view a after a horizontal (vertical) setter: size and the other
\* axis are kept
SameRow(a, b) ==
    /\ b.width = a.width /\ b.height = a.height
    /\ b.top = a.top /\ b.bottom = a.bottom /\ b.y = a.y
SameColumn(a, b) ==
    /\ b.width = a.width /\ b.height = a.height
    /\ b.left = a.left /\ b.right = a.right /\ b.x = a.x
SameSize(a, b) == b.width = a.width /\ b.height = a.height

\* the edges of a view span its size
Spans(a) == a.right - a.left = a.width /\ a.bottom - a.top = a.height

\* view b is view a shifted by (dx, dy)
Shifted(a, b, dx, dy) ==
    /\ b.left = a.left + dx /\ b.right = a.right + dx /\ b.x = a.x + dx
    /\ b.top = a.top + dy /\ b.bottom = a.bottom + dy /\ b.y = a.y + dy
    /\ SameSize(a, b)

\* the SpriteBox half of C30, for the box self
BoxEdgesC30(self) ==
    LET a == BoxView(self)
    IN  /\ Spans(a)
        /\ \A v \in Vals :
            /\ BoxView(set_edge(self, "left", v)).left = v
            /\ SameRow(a, BoxView(set_edge(self, "left", v)))
            /\ BoxView(set_edge(self, "right", v)).right = v
            /\ SameRow(a, BoxView(set_edge(self, "right", v)))
            /\ BoxView(set_edge(self, "top", v)).top = v
            /\ SameColumn(a, BoxView(set_edge(self, "top", v)))
            /\ BoxView(set_edge(self, "bottom", v)).bottom = v
            /\ SameColumn(a, BoxView(set_edge(self, "bottom", v)))
        /\ \A p \in Points :
            /\ LET b == BoxView(set_point(self, "center", p))
               IN  <<b.x, b.y>> = p /\ SameSize(a, b) /\ Spans(b)
            /\ LET b == BoxView(set_point(self, "topleft", p))
               IN  <<b.left, b.top>> = p /\ SameSize(a, b) /\ Spans(b)
            /\ LET b == BoxView(set_point(self, "topright", p))
               IN  <<b.right, b.top>> = p /\ SameSize(a, b) /\ Spans(b)
            /\ LET b == BoxView(set_point(self, "bottomleft", p))
               IN  <<b.left, b.bottom>> = p /\ SameSize(a, b) /\ Spans(b)
            /\ LET b == BoxView(set_point(self, "bottomright", p))
               IN  <<b.right, b.bottom>> = p /\ SameSize(a, b) /\ Spans(b)
            /\ Shifted(a, BoxView(move(self, p[1], p[2])), p[1], p[2])

\* the Camera half of C30, for the camera self
CameraEdgesC30(self) ==
    LET a == CameraView(self)
    IN  /\ Spans(a)
        /\ \A v \in Vals :
            /\ CameraView(camera_set_edge(self, "left", v)).left = v
            /\ SameRow(a, CameraView(camera_set_edge(self, "left", v)))
            /\ CameraView(camera_set_edge(self, "right", v)).right = v
            /\ SameRow(a, CameraView(camera_set_edge(self, "right", v)))
            /\ CameraView(camera_set_edge(self, "top", v)).top = v
            /\ SameColumn(a, CameraView(camera_set_edge(self, "top", v)))
            /\ CameraView(camera_set_edge(self, "bottom", v)).bottom = v
            /\ SameColumn(a, CameraView(camera_set_edge(self, "bottom", v)))
        /\ \A p \in Points :
            /\ LET b == CameraView(camera_set_point(self, "center", p))
               IN  <<b.x, b.y>> = p /\ SameSize(a, b) /\ Spans(b)
            /\ LET b == CameraView(camera_set_point(self, "topleft", p))
               IN  <<b.left, b.top>> = p /\ SameSize(a, b) /\ Spans(b)
            /\ LET b == CameraView(camera_set_point(self, "topright", p))
               IN  <<b.right, b.top>> = p /\ SameSize(a, b) /\ Spans(b)
            /\ LET b == CameraView(camera_set_point(self, "bottomleft", p))
               IN  <<b.left, b.bottom>> = p /\ SameSize(a, b) /\ Spans(b)
            /\ LET b == CameraView(camera_set_point(self, "bottomright", p))
               IN  <<b.right, b.bottom>> = p /\ SameSize(a, b) /\ Spans(b)
            /\ Shifted(a, CameraView(camera_move(self, p[1], p[2])), p[1], p[2])

\* C30: wherever the box and the camera are, assigning v to left, right, top,
\* bottom, center or a corner makes the getter of that edge return v and
\* keeps width, height and the other axis; right - left is the width and
\* bottom - top the height; move(dx, dy) shifts every edge by (dx, dy).
EdgesC30 ==
    /\ BoxEdgesC30(boxes[1])
    /\ camera # NoCamera => CameraEdgesC30(camera)

\* a box 6 wide whose right and top edge were assigned, and a camera whose
\* right and top edge were assigned
WitnessC30 ==
    /\ boxes[1].w = 6 /\ right(boxes[1]) = 2 /\ top(boxes[1]) = -1
    /\ camera # NoCamera /\ camera_get(camera, "right") = 2 /\ camera_get(camera, "top") = -1

(***************************************************************************)
(* The typing game (checked under SpecKeyboard).                           *)
(***************************************************************************)
\* the text of the round as the game holds it, and the three parts of it
Full(g) == g.keys_already_typed \o (IF g.current_key = "" THEN <<>> ELSE <<g.current_key>>)
               \o g.keys_remaining
Parts(g) == <<g.keys_already_typed, g.current_key, g.keys_remaining>>

\* the texts the round of g can be about: ' ' before the first round,
\* 'Game Over ' after the last, else the word of the round and a space (the
\* last word still, in the tick between the last round and 'Game Over ')
Targets(g) ==
    IF g.word_index = -1 THEN {Space, GameOver}
    ELSE IF g.word_index < Len(g.words) THEN {g.words[g.word_index + 1] \o Space}
    ELSE {g.words[Len(g.words)] \o Space}

\* the next letter's key is down
NextHeld(g, ks) == g.keys_remaining # <<>> /\ Key(Head(g.keys_remaining)) \in ks

\* C31: in a tick with current_key empty and keys_remaining = c + rest, c
\* moves into current_key and keys_remaining becomes rest if the key of c is
\* down, and nothing moves if it is not.  In a tick with current_key = c,
\* nothing moves while the key of c is down; once it is up, lines 100-102
\* append c to keys_already_typed and empty current_key (after which lines
\* 103-105 of the same tick take the next letter if its key is down already).
\* keys_already_typed + current_key + keys_remaining is the text of the
\* round in every state.
TypingC31 ==
    /\ Full(game) \in Targets(game)
    /\ \A shuffled \in Shuffles :
        LET n == keyboard_tick(game, keys, shuffled)
            c == game.current_key
        IN  /\ (c = "" /\ game.keys_remaining # <<>>) =>
                 IF NextHeld(game, keys)
                 THEN Parts(n) = <<game.keys_already_typed, Head(game.keys_remaining),
                                   Tail(game.keys_remaining)>>
                 ELSE Parts(n) = Parts(game)
            /\ (c # "" /\ Key(c) \in keys) => Parts(n) = Parts(game)
            /\ (c # "" /\ Key(c) \notin keys) =>
                 /\ Parts(keyboard_release(game, keys)) =
                        <<Append(game.keys_already_typed, c), "", game.keys_remaining>>
                 /\ n.keys_already_typed = Append(game.keys_already_typed, c)
                 /\ IF NextHeld(game, keys)
                    THEN /\ n.current_key = Head(game.keys_remaining)
                         /\ n.keys_remaining = Tail(game.keys_remaining)
                    ELSE n.current_key = "" /\ n.keys_remaining = game.keys_remaining

\* the first letter of a word is typed, the second is the current key and its
\* key is up, while the key of the space that follows is down already
WitnessC31 ==
    /\ game.word_index >= 0
    /\ game.keys_already_typed = <<"o">> /\ game.current_key = "r"
    /\ game.keys_remaining = Space
    /\ keys = {"K_SPACE"}

(***************************************************************************)
(* The clicking game (checked under SpecMouse).                            *)
(***************************************************************************)
\* the box that move_speed moves in the tick that draws rnd: a new box if the
\* box was clicked
Started(rnd) ==
    IF mouseclick(boxes[1], camera, mouse) THEN randomize_box(boxes[1], rnd) ELSE boxes[1]

\* box b is box a with the y speed negated if flipy, the x speed if flipx
Bounced(a, b, flipx, flipy) ==
    b = [a EXCEPT !.speedx = IF flipx THEN -@ ELSE @, !.speedy = IF flipy THEN -@ ELSE @]

\* box b is nearer to the viewport of cam than box a, at every edge a is beyond
Nearer(a, b, cam) ==
    /\ top(a) < 0 => top(b) > top(a)
    /\ bottom(a) > cam.h => bottom(b) < bottom(a)
    /\ left(a) < 0 => left(b) > left(a)
    /\ right(a) > cam.w => right(b) < right(a)

\* C32: in a tick with timer > 0 the box is moved by its speed, and then its
\* y speed is negated exactly when box.top < 0 or box.bottom > camera.height
\* and its x speed exactly when box.left < 0 or box.right > camera.width; a
\* box that is beyond an edge of the viewport is nearer to it after the tick
\* (unless it was clicked and put elsewhere).
BounceC32 ==
    game.timer > 0 =>
        \A rnd \in {d \in Draws : randomize_ok(boxes[1], camera, mouse, d)} :
            LET moved == move_speed(Started(rnd))
                n == mouse_tick(game, boxes[1], camera, mouse, rnd).box
            IN  /\ Bounced(moved, n,
                           left(moved) < 0 \/ right(moved) > camera.w,
                           top(moved) < 0 \/ bottom(moved) > camera.h)
                /\ ~mouseclick(boxes[1], camera, mouse) => Nearer(boxes[1], n, camera)

\* the box has crossed the bottom and the right edge of the viewport and
\* bounced
WitnessC32 ==
    /\ game.timer > 0
    /\ bottom(boxes[1]) > camera.h /\ boxes[1].speedy < 0
    /\ right(boxes[1]) > camera.w /\ boxes[1].speedx < 0

(***************************************************************************)
(* Flat boxes and the caches (checked under SpecBox).                      *)
(***************************************************************************)
\* box b is box a but for its position
MovedOnly(a, b) == b = [a EXCEPT !.x = b.x, !.y = b.y]

\* move, move_speed and the edge setters take the box and return the box:
\* they are given no cache, and key, image, size, color and speed are kept
PlacingKeepsImage(self) ==
    /\ \A p \in Points :
        /\ MovedOnly(self, move(self, p[1], p[2]))
        /\ \A name \in PointNames : MovedOnly(self, set_point(self, name, p))
    /\ MovedOnly(self, move_speed(self))
    /\ \A v \in Vals, name \in EdgeNames : MovedOnly(self, set_edge(self, name, v))

\* rotate, flip and full_size on the flat boxes of a state leave the box, the
\* image cache and the heap as they were, and the placing methods change x
\* and y only
FlatKept ==
    \A b \in Boxes :
        /\ (boxes[b] # NoBox /\ Flat(boxes[b])) =>
            /\ flip(Cur, boxes[b]) = R(Cur, boxes[b])
            /\ full_size(Cur, boxes[b]) = R(Cur, boxes[b])
            /\ \A d \in {120, -120, 360, 90} :
                rotate(Cur, boxes[b], Frac(d)) = R(Cur, boxes[b])
        /\ (boxes[b] # NoBox /\ boxes[b].w # UnsetNum) => PlacingKeepsImage(boxes[b])

\* a step that changes _known_text builds a box: no method of a box does
TextCacheKept ==
    known_text' # known_text => \E b \in Boxes : boxes[b] = NoBox /\ boxes'[b] # NoBox

\* C33: on a flat (color) SpriteBox rotate, flip and full_size return without
\* an error and leave the box (color, width, height, position, speed) and the
\* image cache and heap as they were, and no method of a box changes
\* _known_text (from_text alone does); move, move_speed and the edge setters
\* change x and y only on any box, flat or cache-backed, and use no cache.
FlatNoOpC33 == []FlatKept /\ [][TextCacheKept]_vars

\* a flat box that is wider than high next to a cache-backed box, with images
\* in the cache
WitnessC33 ==
    /\ known_images # EmptyDict
    /\ \E b, c \in Boxes :
        /\ boxes[b] # NoBox /\ Flat(boxes[b]) /\ boxes[b].w # boxes[b].h
        /\ boxes[c] # NoBox /\ CacheBacked(boxes[c])

(***************************************************************************)
(* What the cache holds (checked under SpecCache).                         *)
(***************************************************************************)
IsSid(s) == \E n \in 1..Len(surfaces) : Sid(n) = s

SidSurface(s) == CHOOSE n \in 1..Len(surfaces) : Sid(n) = s

\* the base image of a source: the Surface an identity key names, or the
\* decoded file a reference is loaded from
BaseImage(s) ==
    IF IsSid(s) THEN surfaces[SidSurface(s)]
    ELSE NewSurface(FileSize(Basename(s))[1], FileSize(Basename(s))[2], Basename(s))

\* the transformations a key asks for, in the order flip, scale, rotate; a
\* scale to the size the image already has can be left out
FlipOps(k) == IF k[2] THEN <<Op("flip", 0, 0)>> ELSE <<>>

ScaleOps(k) == IF k[3] = 0 /\ k[4] = 0 THEN <<>> ELSE <<Op("scale", k[3], k[4])>>

RotateOps(k) == IF k[5] = 0 THEN <<>> ELSE <<Op("rotate", k[5], 0)>>

\* the size of the image of a key before its rotation, and after it
KeySize(base, k) == IF k[3] = 0 /\ k[4] = 0 THEN <<base.w, base.h>> ELSE <<k[3], k[4]>>

RotatedSize(sz, k) == IF k[5] = 0 THEN sz ELSE RotoSize(sz[1], sz[2], k[5])

\* img is the base image with exactly the transformations of the key k
Transformed(img, base, k) ==
    /\ img.org = base.org
    /\ \/ img.ops = base.ops \o FlipOps(k) \o ScaleOps(k) \o RotateOps(k)
       \/ /\ <<base.w, base.h>> = <<k[3], k[4]>>
          /\ img.ops = base.ops \o FlipOps(k) \o RotateOps(k)
    /\ <<img.w, img.h>> = RotatedSize(KeySize(base, k), k)

\* C34: in every reachable cache state the image stored under the key
\* (s, f, w, h, a) is the base image of s with exactly the transformations of
\* the key, in the order flip, scale, rotate: mirrored iff f, of size (w, h)
\* before the rotation (the natural size when w = h = 0) and rotated by a.
CacheContentsC34 ==
    \A k \in DOMAIN known_images :
        /\ known_images[k] \in 1..Len(surfaces)
        /\ (IsSid(k[1]) => SidSurface(k[1]) \in 1..Len(surfaces))
        /\ Transformed(surfaces[known_images[k]], BaseImage(k[1]), k)

\* the cache holds a flipped, rotated image at an explicit size and an image
\* under the identity key of a Surface
WitnessC34 ==
    /\ \E k \in DOMAIN known_images : k[2] /\ k[3] = 4 /\ k[5] # 0
    /\ \E k \in DOMAIN known_images : IsSid(k[1])

\* the call c has returned: its chain is cached, the requested key holds the
\* image returned, and one image was made for every key of the chain that was
\* missing, none for a key that was cached
Resolved(c) ==
    /\ Chain(c.args) \subseteq DOMAIN known_images
    /\ known_images[c.args] = c.ans
    /\ c.made = c.missing

\* C35: whenever get_transform(s, f, w, h, a) returns, _known_images holds
\* the requested key and every simpler key on its chain, and every step looks
\* its key up before it computes: an image is made only for the keys of the
\* chain that were not cached.  Checked on the call the game made last, for
\* every call a game makes; the cache it has built holds the chain of each of
\* its keys.
ChainCachedC35 ==
    /\ \A k \in DOMAIN known_images : Chain(k) \subseteq DOMAIN known_images
    /\ \A i \in 1..Len(calls) : IsTransformCall(calls[i]) => Resolved(calls[i])

\* the last call was for a flipped, sized, rotated image of which the
\* flipped image was cached and the rotated one was not
WitnessC35 ==
    /\ calls # <<>> /\ IsTransformCall(calls[Len(calls)])
    /\ calls[Len(calls)].args[2] /\ calls[Len(calls)].args[3] # 0
    /\ calls[Len(calls)].args[5] # 0
    /\ calls[Len(calls)].missing = 1 /\ calls[Len(calls)].made = 1

\* the key of the same image at its own size: the width and height of a
\* default-size key replaced by the size of the image before its rotation
SizedAlias(k) ==
    ImageKey(k[1], k[2], KeySize(BaseImage(k[1]), k)[1], KeySize(BaseImage(k[1]), k)[2], k[5])

\* C36: in every reachable cache state, when a default-size key (s, f, 0, 0, a)
\* whose image has the size (W, H) before its rotation and the key
\* (s, f, W, H, a) are both cached, they map to the identical image object.
AliasIdentityC36 ==
    \A k \in DOMAIN known_images :
        (k[3] = 0 /\ k[4] = 0 /\ SizedAlias(k) \in DOMAIN known_images) =>
            known_images[SizedAlias(k)] = known_images[k]

(***************************************************************************)
(* Termination of timer_loop (checked under SpecLoopFair).                 *)
(*                                                                         *)
(* pygame.event.wait() returns when the queue holds an event, the loop     *)
(* body runs to its end and every callback returns: the steps of the loop  *)
(* are weakly fair.  The environment is free to post or not.  The timer is *)
(* followed for MaxFrames frames.                                          *)
(***************************************************************************)
TimerFiresInTime == frames < MaxFrames /\ TimerFires

\* a step of timer_loop or of its callback's return
LoopStep ==
    \/ LimitReached
    \/ OnQuit
    \/ OnEscape
    \/ OnKeyDown
    \/ OnKeyUp
    \/ OnTick
    \/ Return

NextLoopFair ==
    \/ TimerLoop
    \/ LimitReached
    \/ OnQuit
    \/ OnEscape
    \/ OnKeyDown
    \/ OnKeyUp
    \/ OnTick
    \/ StopLoop
    \/ FreezeLoop
    \/ Return
    \/ TimerFiresInTime
    \/ KeyDown
    \/ KeyUp
    \/ WindowClosed

SpecLoopFair == InitLoop /\ [][NextLoopFair]_vars /\ WF_vars(LoopStep)

IsQuit(e) == e.type = "QUIT" \/ (e.type = "KEYDOWN" /\ e.key = "K_ESCAPE")

\* the loop runs and a Quit event (from the window or stop_loop()) or an
\* Escape key-down is queued
QuitPending ==
    /\ pc \in {"wait", "callback"}
    /\ \E i \in 1..Len(queue) : IsQuit(queue[i])

\* once a quit signal is queued, timer_loop returns
QuitLeadsToReturn == QuitPending ~> (pc = "done")

\* on return the tick timer is disabled
ReturnedTimerOff == [](pc = "done" => ~timer)

\* the limit was reached: a limit was given and the loop has counted that
\* many frames
LimitWasReached == limit # NoArg /\ frames >= limit

\* on return the result is False unless the limit was reached
ReturnedFalseUnlessLimit == [](pc = "done" /\ result => LimitWasReached)

\* C37: once stop_loop() has posted the quit signal, or a Quit event or an
\* Escape key-down is queued, timer_loop eventually returns (every callback
\* returning); on return the tick timer is disabled and the result is False
\* unless the limit was reached first.
QuitReturnsC37 ==
    /\ QuitLeadsToReturn
    /\ ReturnedTimerOff
    /\ ReturnedFalseUnlessLimit

\* stop_loop() was called in a callback, the Quit it posted ended the loop
\* before the limit, the timer is off and the result is False
WitnessC37 ==
    /\ pc = "done" /\ obs.ended = "quit"
    /\ obs.stopped /\ obs.ncalls > 0
    /\ limit # NoArg /\ frames < limit
    /\ ~timer /\ ~result

(***************************************************************************)
(* The key set (checked under SpecLoop).                                   *)
(***************************************************************************)
\* the keys whose key event handled last is a key-down
LastDown == {k \in Keys : obs.last_key[k] = "down"}

\* C38: after any sequence of events handled by timer_loop,
\* Camera.instance.keys is exactly the set of keys whose key event handled
\* last is a key-down, Escape left out: Escape is never a member, a key-up of
\* a key that is not in the set and a tick leave the set as it is.
KeySetC38 ==
    /\ keys = LastDown \ {"K_ESCAPE"}
    /\ "K_ESCAPE" \notin keys

\* the loop has handled a key-up after ticks and an Escape key-down ended it
\* while the key was held again
WitnessC38 ==
    /\ pc = "done" /\ obs.ended = "escape"
    /\ obs.ncalls > 0
    /\ keys = {"K_a"}
    /\ obs.missed # {}

(***************************************************************************)
(* The two directions of overlap (checked under SpecGeo).                  *)
(***************************************************************************)
Neg(o) == <<0 - o[1], 0 - o[2]>>

\* the boxes overlap and the first distance in the order l, r, t, b that is
\* the largest is as large as its opposite: l = r = m, or t = b = m > l, r
CentredTie(self, other, px, py) ==
    LET m == RefM(self, other, px, py) IN
    /\ m < 0
    /\ \/ RefL(self, other, px) = m /\ RefR(self, other, px) = m
       \/ /\ RefL(self, other, px) < m /\ RefR(self, other, px) < m
          /\ RefT(self, other, py) = m /\ RefB(self, other, py) = m

\* C39, as claimed: for any two boxes and paddings a.overlap(b, p, p2) is the
\* exact negation of b.overlap(a, p, p2), also when several of the four edge
\* distances are equal.
OverlapNegationC39 ==
    \A px \in Paddings, py \in Paddings2 :
        overlap(boxes[1], boxes[2], px, py) = Neg(overlap(boxes[2], boxes[1], px, py))

\* C39, amended: a.overlap(b, p, p2) is the exact negation of
\* b.overlap(a, p, p2) unless the largest edge distance is shared by the two
\* opposite edges the tie-break takes first (l = r = m, or t = b = m with l
\* and r smaller); then both calls return the same non-zero push.
OverlapOppositeC39 ==
    \A px \in Paddings, py \in Paddings2 :
        LET ab == overlap(boxes[1], boxes[2], px, py)
            ba == overlap(boxes[2], boxes[1], px, py)
        IN  IF CentredTie(boxes[1], boxes[2], px, PadY(px, py))
            THEN ab = ba /\ ab # <<0, 0>>
            ELSE ab = Neg(ba)

\* after a move the boxes overlap with l = r largest for one padding, and
\* with a single largest distance for another
WitnessC39 ==
    /\ last.op = "move"
    /\ \E px \in Paddings, py \in Paddings2 :
        /\ CentredTie(boxes[1], boxes[2], px, PadY(px, py))
        /\ RefL(boxes[1], boxes[2], px) = RefM(boxes[1], boxes[2], px, PadY(px, py))
    /\ \E px \in Paddings, py \in Paddings2 :
        /\ ~CentredTie(boxes[1], boxes[2], px, PadY(px, py))
        /\ overlap(boxes[1], boxes[2], px, py) # <<0, 0>>

(***************************************************************************)
(* Growing and shrinking (checked under SpecBox).                          *)
(***************************************************************************)
\* the factors of a grow-and-shrink cycle, f and 1 / f
CycleFactors == {<<1, 2>>, <<2, 1>>, <<1, 4>>, <<1, 16>>}

Inverse(f) == <<f[2], f[1]>>

\* scale_by(f) followed by scale_by(1 / f) gives the box its key and its
\* image again
Restored(self, back) ==
    /\ ~back.st.err
    /\ back.self.key = self.key
    /\ back.self.image = self.image

\* both sides of the key size times f are whole numbers, not both 0
WholeSize(self, f) ==
    /\ (self.key[3] * f[1]) % f[2] = 0 /\ (self.key[4] * f[1]) % f[2] = 0
    /\ self.key[3] * f[1] > 0 \/ self.key[4] * f[1] > 0

\* the cycle restores the key size where no rounding takes place
ScaleCycleWhole ==
    \A b \in Boxes, f \in CycleFactors :
        (Keyed(boxes[b]) /\ WholeSize(boxes[b], f)) =>
            LET back == scale_by(scale_by(Cur, boxes[b], f).st,
                                 scale_by(Cur, boxes[b], f).self, Inverse(f))
            IN  ~back.st.err /\ back.self.key = boxes[b].key

\* C40: for a cache-backed box with key size (w, h) and any factor f > 0,
\* scale_by(f) followed by scale_by(1 / f) restores the key size (w, h) and
\* the same cached image.
ScaleCycleC40 ==
    \A b \in Boxes, f \in CycleFactors :
        Keyed(boxes[b]) =>
            Restored(boxes[b],
                     scale_by(scale_by(Cur, boxes[b], f).st,
                              scale_by(Cur, boxes[b], f).self, Inverse(f)))

====
